---------------------------- MODULE Spec2Model ----------------------------
(***************************************************************************)
(* State-machine model of the Telegram moderation bot, in its two source   *)
(* versions: TGBot.py (polling, ver = 1) and TGBot2.py (webhook, ver = 2). *)
(*                                                                         *)
(* The state is the module-level dict `data`, the durable file data.json   *)
(* (`disk`), the platform's own ban list (`platform`, behind the gateway)  *)
(* and the coroutines in flight (`handlers`).  A handler is a coroutine:   *)
(* one action models the synchronous code between two awaits, so handlers  *)
(* interleave exactly at the awaits on gateway calls.                      *)
(***************************************************************************)
EXTENDS Integers, Sequences, FiniteSets, TLC

VARIABLES
    ver,        \* 1: TGBot.py is the running program, 2: TGBot2.py
    running,    \* FALSE once the process died at start-up
    data,       \* the module-level dict `data`
    disk,       \* data.json
    fs,         \* the paths that exist under FILES_DIR
    platform,   \* <<chat, user>> pairs banned on the messaging platform
    handlers,   \* the coroutines in flight, in the order they were accepted
    faults,     \* failed writes of data.json so far
    issued,     \* <<chat, user>> -> count loaded at start + violations accepted
    last,       \* whose step led here: a handler's kind, or "start"
    scan        \* a text on its way through the classifiers

vars ==
    <<ver, running, data, disk, fs, platform, handlers, faults, issued, last,
      scan>>

(***************************************************************************)
(* Bounds of the model.                                                    *)
(***************************************************************************)
NHandlers == 2        \* coroutines that may be in flight together
MaxWarn == 4          \* a pair's count is driven up to this value
MaxFaults == 1        \* failed writes of data.json in one run

(***************************************************************************)
(* Identifiers.                                                            *)
(***************************************************************************)
ADMIN_IDS == {"adm"}
Users == {"adm", "u1", "u2"}
Groups == {"g1"}
Privates == {"pm"}
Chats == Groups \cup Privates
\* a second group, for the operations that tell conversations apart
OtherGroups == {"g2"}
AllChats == Chats \cup OtherGroups

\* faulty variant: every conversation passes for a group
chat_type_all(c) == "supergroup"

chat_type(c) == IF c \in Privates THEN "private" ELSE "supergroup"

WARN_LIMIT == 3

(***************************************************************************)
(* Python dict helpers.                                                    *)
(***************************************************************************)
Get(f, k, dflt) == IF k \in DOMAIN f THEN f[k] ELSE dflt

Put(f, k, v) == [x \in (DOMAIN f) \cup {k} |-> IF x = k THEN v ELSE f[x]]

EmptyDict == [x \in {} |-> 0]

InList(s, x) == \E i \in 1..Len(s) : s[i] = x

\* list.remove(x): drops the first occurrence
RECURSIVE ListRemove(_, _)
ListRemove(s, x) ==
    IF s = <<>> THEN <<>>
    ELSE IF Head(s) = x THEN Tail(s)
    ELSE <<Head(s)>> \o ListRemove(Tail(s), x)

RECURSIVE SetToSeq(_)
SetToSeq(S) ==
    IF S = {} THEN <<>>
    ELSE LET x == CHOOSE y \in S : TRUE IN <<x>> \o SetToSeq(S \ {x})

(***************************************************************************)
(* Persistence.  A store is the pair (data, disk) threaded through the     *)
(* synchronous code, with `raised` set once an exception is propagating.   *)
(***************************************************************************)
DEFAULT_DATA ==
    [users |-> EmptyDict, warnings |-> EmptyDict, banned |-> EmptyDict,
     files |-> EmptyDict, channels |-> <<>>, chats_config |-> EmptyDict]

\* data.json: a JSON record, an unreadable file, or no file at all
File(d) == [state |-> "json", content |-> d]
Corrupt == [state |-> "corrupt", content |-> DEFAULT_DATA]
Absent == [state |-> "absent", content |-> DEFAULT_DATA]
WriteOutcomes == {"ok", "fail", "torn"}

Store(d, k, f) == [data |-> d, disk |-> k, raised |-> FALSE, faults |-> f]

\* open(DATA_FILE, "w") + json.dump: the whole record is rewritten; a write
\* that fails leaves the old file (open failed) or a truncated one (dump
\* failed).  TGBot.py lets the exception propagate, TGBot2.py logs it.
save_data(v, st, w) ==
    IF st.raised THEN st
    ELSE CASE w = "ok" -> [st EXCEPT !.disk = File(st.data)]
           [] w = "fail" ->
                [st EXCEPT !.raised = (v = 1), !.faults = @ + 1]
           [] OTHER ->
                [st EXCEPT !.disk = Corrupt, !.raised = (v = 1),
                           !.faults = @ + 1]


(***************************************************************************)
(* Text.  A str is a sequence of one-character strings.                    *)
(***************************************************************************)
UpperCase ==
    <<"A","B","C","D","E","F","G","H","I","J","K","L","M",
      "N","O","P","Q","R","S","T","U","V","W","X","Y","Z">>
LowerCase ==
    <<"a","b","c","d","e","f","g","h","i","j","k","l","m",
      "n","o","p","q","r","s","t","u","v","w","x","y","z">>
Digits == {"0","1","2","3","4","5","6","7","8","9"}
Letters == {UpperCase[i] : i \in 1..26} \cup {LowerCase[i] : i \in 1..26}
Whitespace == {" "}

\* \w and [\w\-]
WordChars == Letters \cup Digits \cup {"_"}
HostChars == WordChars \cup {"-"}
\* [\w\-.~:/?#\[\]@!$&'()*+,;=%]
UrlChars ==
    HostChars \cup {".","~",":","/","?","#","[","]","@","!","$","&","'",
                    "(",")","*","+",",",";","=","%"}
\* [\w\-\./?=&%]
PathChars == HostChars \cup {".","/","?","=","&","%"}

lower_char(ch) ==
    IF \E i \in 1..26 : UpperCase[i] = ch
    THEN LowerCase[CHOOSE i \in 1..26 : UpperCase[i] = ch]
    ELSE ch

\* str.lower()
lower(s) == [i \in 1..Len(s) |-> lower_char(s[i])]

\* the literal `lit` occurs in s at position i (1-based)
At(s, i, lit) ==
    /\ i >= 1
    /\ i + Len(lit) - 1 <= Len(s)
    /\ SubSeq(s, i, i + Len(lit) - 1) = lit

\* `sub in s`
Contains(s, sub) == \E i \in 1..(Len(s) - Len(sub) + 1) : At(s, i, sub)

\* \b between positions i and i+1 of s
Boundary(s, i) ==
    LET l == i >= 1 /\ i <= Len(s) /\ s[i] \in WordChars
        r == i + 1 >= 1 /\ i + 1 <= Len(s) /\ s[i + 1] \in WordChars
    IN l # r

GLOBAL_BANNED_WORDS ==
    { <<"b","a","d","w","o","r","d","1">>,
      <<"b","a","d","w","o","r","d","2">>,
      <<"s","o","m","e","v","u","l","g","a","r","w","o","r","d">> }

BANNED_WORDS == GLOBAL_BANNED_WORDS

\* the words a conversation may add to its own list
CustomWords == { <<"s","p","a","m">> }
Words == GLOBAL_BANNED_WORDS \cup CustomWords

TLDS ==
    { <<"c","o","m">>, <<"n","e","t">>, <<"o","r","g">>, <<"i","n">>,
      <<"i","o">>, <<"i","n","f","o">>, <<"b","i","z">>, <<"c","o">>,
      <<"m","e">>, <<"x","y","z">>, <<"t","k">> }

SHORTENER_DOMAINS ==
    { <<"b","i","t",".","l","y">>, <<"t",".","c","o">>,
      <<"t","i","n","y","u","r","l",".","c","o","m">>,
      <<"g","o","o",".","g","l">>, <<"i","s",".","g","d">>,
      <<"o","w",".","l","y">> }

\* URL_RE.search(t), re.IGNORECASE: one of its three alternatives matches
URL_RE(t) ==
    LET s == lower(t)
        scheme(i, lit) ==
            /\ At(s, i, lit)
            /\ i + Len(lit) <= Len(s)
            /\ s[i + Len(lit)] \in UrlChars
        www(i) ==
            /\ At(s, i, <<"w","w","w",".">>)
            /\ \E k \in 1..Len(s) :
                 /\ i + 5 + k <= Len(s)
                 /\ \A j \in (i + 4)..(i + 3 + k) : s[j] \in HostChars
                 /\ s[i + 4 + k] = "."
                 /\ s[i + 5 + k] \in PathChars
        bare(j) ==
            /\ j > 1
            /\ s[j] = "."
            /\ s[j - 1] \in HostChars
            /\ \E tld \in TLDS :
                 /\ At(s, j + 1, tld)
                 /\ Boundary(s, j + Len(tld))
    IN \E i \in 1..Len(s) :
         \/ scheme(i, <<"h","t","t","p",":","/","/">>)
         \/ scheme(i, <<"h","t","t","p","s",":","/","/">>)
         \/ www(i)
         \/ bare(i)

\* IP_RE.search(t): \b(?:\d{1,3}\.){3}\d{1,3}\b
IP_RE(t) ==
    LET run(i, n) == \A j \in i..(i + n - 1) : j <= Len(t) /\ t[j] \in Digits
        dot(i) == i <= Len(t) /\ t[i] = "."
    IN \E i \in 1..Len(t) : \E a, b, c, d \in 1..3 :
         /\ Boundary(t, i - 1)
         /\ run(i, a) /\ dot(i + a)
         /\ run(i + a + 1, b) /\ dot(i + a + b + 1)
         /\ run(i + a + b + 2, c) /\ dot(i + a + b + c + 2)
         /\ run(i + a + b + c + 3, d)
         /\ Boundary(t, i + a + b + c + d + 2)

\* SHORTENER_RE.search(t), re.IGNORECASE
SHORTENER_RE(t) ==
    LET s == lower(t)
    IN \E i \in 1..Len(s) : \E dom \in SHORTENER_DOMAINS :
         /\ At(s, i, dom)
         /\ Boundary(s, i - 1)
         /\ Boundary(s, i + Len(dom) - 1)

\* re.sub over the alternatives `pats`, each replaced by `by`: leftmost
\* match first, the scan resuming after the replaced text; the patterns of normalize_obfuscated, matched on the lowered text and
\* cut out of the original (re.IGNORECASE)
RECURSIVE re_sub_ci(_, _, _, _)
re_sub_ci(pats, by, s, i) ==
    IF i > Len(s) THEN <<>>
    ELSE LET hit == {p \in pats : At(lower(s), i, p)}
         IN IF hit # {}
            THEN LET p == CHOOSE q \in hit : TRUE
                 IN <<by>> \o re_sub_ci(pats, by, s, i + Len(p))
            ELSE <<s[i]>> \o re_sub_ci(pats, by, s, i + 1)

DOT_PATTERNS ==
    { <<"[",".","]">>, <<"{",".","}">>, <<"(","d","o","t",")">>,
      <<" ","d","o","t"," ">> }

AT_PATTERNS ==
    { <<"[","a","t","]">>, <<"(","a","t",")">>, <<" ","a","t"," ">> }

\* faulty variant: the text is matched as it was written
normalize_obfuscated_none(text) == text

normalize_obfuscated(text) ==
    re_sub_ci(AT_PATTERNS, "@", re_sub_ci(DOT_PATTERNS, ".", text, 1), 1)

\* TGBot2.py
text_contains_link(text) ==
    IF text = <<>> THEN FALSE
    ELSE LET t == normalize_obfuscated(text)
         IN URL_RE(t) \/ IP_RE(t) \/ SHORTENER_RE(t)

\* faulty variant: the words are looked for in the text as it was written
banned_matches_exact(text, banned_words) ==
    IF text = <<>> THEN {}
    ELSE {w \in banned_words : w # <<>> /\ Contains(text, w)}

\* the words text_contains_banned_word may return (set iteration order is
\* not fixed); the empty set stands for None
banned_matches(text, banned_words) ==
    IF text = <<>> THEN {}
    ELSE {w \in banned_words : w # <<>> /\ Contains(lower(text), w)}

text_contains_banned_word(text, banned_words) ==
    banned_matches(text, banned_words) # {}

\* TGBot.py: LINK_PATTERN.search(text), re.IGNORECASE
LINK_PATTERN(text) ==
    LET s == lower(text)
        suffix(j, tld) ==
            /\ j > 1
            /\ s[j - 1] \notin Whitespace
            /\ At(s, j, <<".">> \o tld)
            /\ Boundary(s, j + Len(tld))
    IN \E i \in 1..Len(s) :
         \/ At(s, i, <<"h","t","t","p",":","/","/">>)
         \/ At(s, i, <<"h","t","t","p","s",":","/","/">>)
         \/ At(s, i, <<"w","w","w",".">>)
         \/ At(s, i, <<"t",".","m","e","/">>)
         \/ At(s, i, <<"t","e","l","e","g","r","a","m",".","m","e","/">>)
         \/ suffix(i, <<"c","o","m">>)
         \/ suffix(i, <<"i","n">>)

\* TGBot.py
contains_link_or_banned(text) ==
    IF text = <<>> THEN FALSE
    ELSE \/ LINK_PATTERN(text)
         \/ \E w \in BANNED_WORDS : Contains(lower(text), w)

(***************************************************************************)
(* The messages the model receives.                                        *)
(***************************************************************************)
TxtChat == <<"h","i">>
TxtLink == <<"a",".","c","o","m">>
TxtBad == <<"b","a","d","w","o","r","d","1">>
TxtSpam == <<"S","p","a","m">>

\* msg.text and msg.caption, "" when absent
Messages ==
    { [body |-> TxtChat, caption |-> <<>>],
      [body |-> TxtLink, caption |-> <<>>],
      [body |-> <<>>, caption |-> TxtBad],
      [body |-> TxtSpam, caption |-> <<>>] }

\* the text message_handler classifies
text_of(m) == m.body \o <<" ">> \o m.caption

Texts == {text_of(m) : m \in Messages}

\* the classifiers over Texts, computed once
Linked == {t \in Texts : text_contains_link(t)}
Worded == {<<t, w>> \in Texts \X Words :
              text_contains_banned_word(t, {w})}
Flagged == {t \in Texts : contains_link_or_banned(t)}

(***************************************************************************)
(* The classifiers on their own.  `scan` is one text on its way through    *)
(* them: a message (body and caption) that message_handler joins into the  *)
(* text it classifies, or a text the functions are called with directly;   *)
(* words is the set of banned words they are given.                        *)
(***************************************************************************)
TxtSpamNow == <<"S","P","A","M"," ","n","o","w">>
TxtBuySpam == <<"b","u","y"," ","S","p","a","m","1">>
TxtSpan == <<"s","p","a","n">>
TxtJustChatting == <<"j","u","s","t"," ","c","h","a","t","t","i","n","g">>
TxtVisitUrl ==
    <<"v","i","s","i","t"," ","h","t","t","p",":","/","/","e","x","a","m",
      "p","l","e",".","c","o","m"," ","n","o","w">>
TxtVisitObfuscated ==
    <<"v","i","s","i","t"," ","e","x","a","m","p","l","e","[",".","]","c",
      "o","m"," ","n","o","w">>
TxtShout == <<"B","A","D","W","O","R","D","1","!">>
TxtHalfBad == <<"b","a","d">>
TxtHalfWord == <<"w","o","r","d","1">>
TxtBefore == <<"a"," ","(","d","o","t",")"," ","b"," ","[","a","t","]"," ">>
TxtAfter == <<" ","a","t"," ","c"," ","d","o","t"," ","d">>

ScanBodies ==
    { <<>>, TxtSpamNow, TxtBuySpam, TxtSpan, TxtJustChatting, TxtVisitUrl,
      TxtVisitObfuscated, TxtShout, TxtHalfBad, TxtBad }
ScanCaptions == { <<>>, TxtHalfWord, TxtSpamNow }

\* texts that contain TxtVisitUrl, among patterns of normalize_obfuscated
ScanTexts ==
    ScanBodies \cup
    { TxtBefore \o TxtVisitUrl, TxtVisitUrl \o TxtAfter,
      TxtBefore \o TxtVisitUrl \o TxtAfter }

\* sets of banned words; the empty word is what /setconfig add_banned=
\* stores
ScanWords ==
    { {}, {lower(TxtSpam)}, GLOBAL_BANNED_WORDS,
      {<<>>, lower(TxtSpam)}, {<<>>} }

\* banned_word is the word returned, <<>> for None (the function never
\* returns the empty word)
NoScan ==
    [pc |-> "idle", body |-> <<>>, caption |-> <<>>, text |-> <<>>,
     words |-> {}, link_present |-> FALSE, banned_word |-> <<>>,
     flagged |-> FALSE]

ScanInputs ==
    { [NoScan EXCEPT !.pc = "msg", !.body = b, !.caption = c, !.words = ws] :
         b \in ScanBodies, c \in ScanCaptions, ws \in ScanWords }
    \cup
    { [NoScan EXCEPT !.pc = "text", !.text = t, !.words = ws] :
         t \in ScanTexts, ws \in ScanWords }

(***************************************************************************)
(* Utilities over the store.  Each takes the store, returns the store; a   *)
(* store with `raised` set is passed through untouched (the exception      *)
(* skips the rest of the try block or of the handler).                     *)
(***************************************************************************)
\* faulty variant: every caller passes for an admin
is_admin_anyone(user_id) == TRUE

is_admin(user_id) == user_id \in ADMIN_IDS

NewUser(prof) == [name |-> prof, chats |-> <<>>]

\* faulty variant: the membership is appended and not written
ensure_user_registered_lazy(st, uid, prof, chat_id, w1, w2) ==
    LET s1 == IF uid \notin DOMAIN st.data.users
              THEN save_data(2,
                     [st EXCEPT !.data.users = Put(@, uid, NewUser(prof))],
                     w1)
              ELSE st
    IN IF chat_id # "None" /\ ~InList(s1.data.users[uid].chats, chat_id)
       THEN [s1 EXCEPT !.data.users[uid].chats = Append(@, chat_id)]
       ELSE s1

\* TGBot2.py; chat_id = "None" when called without a chat
ensure_user_registered(st, uid, prof, chat_id, w1, w2) ==
    LET s1 == IF uid \notin DOMAIN st.data.users
              THEN save_data(2,
                     [st EXCEPT !.data.users = Put(@, uid, NewUser(prof))],
                     w1)
              ELSE st
    IN IF chat_id # "None" /\ ~InList(s1.data.users[uid].chats, chat_id)
       THEN save_data(2,
              [s1 EXCEPT !.data.users[uid].chats = Append(@, chat_id)], w2)
       ELSE s1

\* TGBot.py
ensure_chat_user(st, chat_id, uid, prof, w) ==
    LET s1 == IF uid \notin DOMAIN st.data.users
              THEN [st EXCEPT !.data.users = Put(@, uid, NewUser(prof))]
              ELSE st
    IN IF ~InList(s1.data.users[uid].chats, chat_id)
       THEN save_data(1,
              [s1 EXCEPT !.data.users[uid].chats = Append(@, chat_id)], w)
       ELSE s1

get_warnings(d, chat_id, user_id) ==
    Get(Get(d.warnings, chat_id, EmptyDict), user_id, 0)

\* faulty variant: the row of the conversation is created anew at each call
increment_warning_fresh_row(v, st, chat_id, user_id, w) ==
    IF st.raised THEN st
    ELSE LET row == EmptyDict
             new == Put(row, user_id, Get(row, user_id, 0) + 1)
         IN save_data(v,
              [st EXCEPT !.data.warnings = Put(@, chat_id, new)], w)

\* faulty variant: the count is changed in memory and not written
increment_warning_unsaved(v, st, chat_id, user_id, w) ==
    IF st.raised THEN st
    ELSE LET row == Get(st.data.warnings, chat_id, EmptyDict)
             new == Put(row, user_id, Get(row, user_id, 0) + 1)
         IN [st EXCEPT !.data.warnings = Put(@, chat_id, new)]

increment_warning(v, st, chat_id, user_id, w) ==
    IF st.raised THEN st
    ELSE LET row == Get(st.data.warnings, chat_id, EmptyDict)
             new == Put(row, user_id, Get(row, user_id, 0) + 1)
         IN save_data(v,
              [st EXCEPT !.data.warnings = Put(@, chat_id, new)], w)

reset_warnings(v, st, chat_id, user_id, w) ==
    IF st.raised THEN st
    ELSE IF /\ chat_id \in DOMAIN st.data.warnings
            /\ user_id \in DOMAIN st.data.warnings[chat_id]
         THEN save_data(v,
                [st EXCEPT !.data.warnings[chat_id][user_id] = 0], w)
         ELSE st

\* faulty variant: the list of the conversation is made anew for the user
ban_user_record_sole(v, st, chat_id, user_id, w) ==
    IF st.raised THEN st
    ELSE save_data(v,
           [st EXCEPT !.data.banned = Put(@, chat_id, <<user_id>>)], w)

ban_user_record(v, st, chat_id, user_id, w) ==
    IF st.raised THEN st
    ELSE LET s1 == IF chat_id \notin DOMAIN st.data.banned
                   THEN [st EXCEPT !.data.banned = Put(@, chat_id, <<>>)]
                   ELSE st
         IN IF ~InList(s1.data.banned[chat_id], user_id)
            THEN save_data(v,
                   [s1 EXCEPT !.data.banned[chat_id] = Append(@, user_id)],
                   w)
            ELSE s1

\* faulty variant: list.remove without the membership test raises
\* ValueError on a user who is not in the list
unban_user_record_unguarded(st, chat_id, user_id, w) ==
    IF st.raised THEN st
    ELSE IF /\ chat_id \in DOMAIN st.data.banned
            /\ InList(st.data.banned[chat_id], user_id)
         THEN save_data(1,
                [st EXCEPT !.data.banned[chat_id] = ListRemove(@, user_id)],
                w)
         ELSE [st EXCEPT !.raised = TRUE]

\* TGBot.py only: TGBot2.py has no such function
unban_user_record(st, chat_id, user_id, w) ==
    IF st.raised THEN st
    ELSE IF /\ chat_id \in DOMAIN st.data.banned
            /\ InList(st.data.banned[chat_id], user_id)
         THEN save_data(1,
                [st EXCEPT !.data.banned[chat_id] = ListRemove(@, user_id)],
                w)
         ELSE st

is_user_banned(d, chat_id, user_id) ==
    InList(Get(d.banned, chat_id, <<>>), user_id)

GLOBAL_CONFIG ==
    [warn_limit_default |-> 3, delete_links_default |-> TRUE,
     ban_on_limit_default |-> TRUE]

\* faulty variant: the global words are left out of the set
get_chat_config_bare(d, chat_id) ==
    LET conf == Get(d.chats_config, chat_id, EmptyDict)
    IN [delete_links |->
            Get(conf, "delete_links", GLOBAL_CONFIG.delete_links_default),
        warn_limit |->
            Get(conf, "warn_limit", GLOBAL_CONFIG.warn_limit_default),
        ban_on_limit |->
            Get(conf, "ban_on_limit", GLOBAL_CONFIG.ban_on_limit_default),
        banned_words |-> Get(conf, "banned_words", {})]

\* faulty variant: a stored list of words stands in for the global words
get_chat_config_override(d, chat_id) ==
    LET conf == Get(d.chats_config, chat_id, EmptyDict)
    IN [delete_links |->
            Get(conf, "delete_links", GLOBAL_CONFIG.delete_links_default),
        warn_limit |->
            Get(conf, "warn_limit", GLOBAL_CONFIG.warn_limit_default),
        ban_on_limit |->
            Get(conf, "ban_on_limit", GLOBAL_CONFIG.ban_on_limit_default),
        banned_words |-> Get(conf, "banned_words", GLOBAL_BANNED_WORDS)]

\* TGBot2.py: the stored configuration with the defaults filled in
get_chat_config(d, chat_id) ==
    LET conf == Get(d.chats_config, chat_id, EmptyDict)
    IN [delete_links |->
            Get(conf, "delete_links", GLOBAL_CONFIG.delete_links_default),
        warn_limit |->
            Get(conf, "warn_limit", GLOBAL_CONFIG.warn_limit_default),
        ban_on_limit |->
            Get(conf, "ban_on_limit", GLOBAL_CONFIG.ban_on_limit_default),
        banned_words |->
            Get(conf, "banned_words", {}) \cup GLOBAL_BANNED_WORDS]

\* the policy a handler of version v works with: TGBot.py has the constants
effective_config(v, d, chat_id) ==
    IF v = 2 THEN get_chat_config(d, chat_id)
    ELSE [delete_links |-> TRUE, warn_limit |-> WARN_LIMIT,
          ban_on_limit |-> TRUE, banned_words |-> BANNED_WORDS]

(***************************************************************************)
(* Process start: data = load_data().                                      *)
(***************************************************************************)
\* the outcome of load_data on file k: the dict, the file it leaves, and
\* whether the process survived (TGBot.py does not catch a json error)
load_data(v, k) ==
    CASE k.state = "absent" ->
           [data |-> DEFAULT_DATA, disk |-> File(DEFAULT_DATA), up |-> TRUE]
      [] k.state = "corrupt" ->
           [data |-> DEFAULT_DATA, disk |-> k, up |-> (v = 2)]
      [] OTHER -> [data |-> k.content, disk |-> k, up |-> TRUE]

\* the counts of a dict, as the base of `issued`
Loaded(d) ==
    [p \in {<<c, u>> : c \in AllChats, u \in Users} |->
        get_warnings(d, p[1], p[2])]

\* data.json as an operator may have left it before the first start
SeedData ==
    [DEFAULT_DATA EXCEPT
       !.channels = <<"ch1">>,
       !.chats_config =
          Put(EmptyDict, "g1",
              [delete_links |-> TRUE, warn_limit |-> 2,
               ban_on_limit |-> TRUE, banned_words |-> {}])]

\* data.json of a bot that has moderated u2 in g1 and u1 in g2, with a
\* file, a channel and a policy for g2
PairsData ==
    [DEFAULT_DATA EXCEPT
       !.users =
          Put(Put(EmptyDict, "u1", [name |-> "p1", chats |-> <<"g2">>]),
              "u2", [name |-> "p1", chats |-> <<"g1">>]),
       !.warnings =
          Put(Put(EmptyDict, "g1", Put(EmptyDict, "u2", 2)),
              "g2", Put(EmptyDict, "u1", 1)),
       !.banned = Put(Put(EmptyDict, "g1", <<"u2">>), "g2", <<"u1">>),
       !.files = Put(EmptyDict, "k1", [path |-> <<"k1", "doc">>, desc |-> ""]),
       !.channels = <<"ch1">>,
       !.chats_config =
          Put(EmptyDict, "g2",
              [delete_links |-> TRUE, warn_limit |-> 2,
               ban_on_limit |-> TRUE,
               banned_words |-> GLOBAL_BANNED_WORDS])]

PairsSeeds == {File(PairsData)}

SeedFiles == {Absent, File(DEFAULT_DATA)}
BroadcastSeeds == {Absent, File(SeedData)}

InitStore(seeds) ==
    /\ ver \in {1, 2}
    /\ \E k \in seeds :
         LET l == load_data(ver, k)
         IN /\ data = l.data
            /\ disk = l.disk
            /\ running = l.up
            /\ issued = Loaded(l.data)
    /\ fs = {}
    /\ platform = {}
    /\ handlers = <<>>
    /\ faults = 0
    /\ last = "start"

InitFrom(seeds) == InitStore(seeds) /\ scan = NoScan

Init == InitFrom(SeedFiles)

\* the process is killed and started again: the coroutines in flight are
\* gone, the dict is what the file holds
Restart ==
    LET l == load_data(ver, disk)
    IN /\ data' = l.data
       /\ disk' = l.disk
       /\ running' = l.up
       /\ issued' = Loaded(l.data)
       /\ handlers' = <<>>
       /\ last' = "start"
       /\ UNCHANGED <<ver, scan, fs, platform, faults>>

(***************************************************************************)
(* Coroutines.                                                             *)
(***************************************************************************)
HNew(kind, pc, chat, actor, target) ==
    [kind |-> kind, pc |-> pc, chat |-> chat, actor |-> actor,
     target |-> target, n |-> 0, limit |-> 0, ban_on |-> FALSE,
     rcpts |-> <<>>, tried |-> <<>>, sent |-> 0, failed |-> 0,
     reply |-> "-"]

Remove(hs, i) == SubSeq(hs, 1, i - 1) \o SubSeq(hs, i + 1, Len(hs))

\* the handler sends its last message to the invoking actor
Reply(hs, i, text) == [hs EXCEPT ![i].pc = "reply", ![i].reply = text]

\* the same inside a try block whose except clause replies `text` again
ReplyTry(hs, i, text) == [hs EXCEPT ![i].pc = "reply_try", ![i].reply = text]

\* writes that may fail while the budget of faults lasts
Writes(f) == IF f < MaxFaults THEN WriteOutcomes ELSE {"ok"}

Commit(st) ==
    /\ st.faults <= MaxFaults
    /\ data' = st.data
    /\ disk' = st.disk
    /\ faults' = st.faults

Pending(c, u) ==
    Cardinality({i \in 1..Len(handlers) :
        /\ handlers[i].kind = "msg" /\ handlers[i].pc = "delete"
        /\ handlers[i].chat = c /\ handlers[i].target = u})

(***************************************************************************)
(* message_handler                                                         *)
(***************************************************************************)
\* faulty variant: the switch delete_links gates the links only
is_violation_words_always(v, conf, text) ==
    IF v = 2
    THEN \/ conf.delete_links /\ text \in Linked
         \/ \E w \in conf.banned_words : <<text, w>> \in Worded
    ELSE text \in Flagged

\* the message is a violation under the policy conf
is_violation(v, conf, text) ==
    IF v = 2
    THEN /\ conf.delete_links
         /\ \/ text \in Linked
            \/ \E w \in conf.banned_words : <<text, w>> \in Worded
    ELSE text \in Flagged

\* up to the first await: registration, classification
MessageAccept(cap, c, u, prof, body, caption, W) ==
    /\ running
    /\ Len(handlers) < cap
    /\ <<c, u>> \notin platform
    /\ \E w1, w2 \in W :
         LET st == IF ver = 2
                   THEN ensure_user_registered(
                          Store(data, disk, faults), u, prof, c, w1, w2)
                   ELSE ensure_chat_user(
                          Store(data, disk, faults), c, u, prof, w1)
             text == text_of([body |-> body, caption |-> caption])
             conf == effective_config(ver, st.data, c)
             moderated ==
                /\ ~st.raised
                /\ chat_type(c) \in {"group", "supergroup"}
                /\ is_violation(ver, conf, text)
         IN /\ Commit(st)
            /\ IF moderated
               THEN /\ issued[<<c, u>>] < MaxWarn
                    /\ issued' = [issued EXCEPT ![<<c, u>>] = @ + 1]
                    /\ handlers' = Append(handlers,
                         [HNew("msg", "delete", c, u, u) EXCEPT
                            !.limit = conf.warn_limit,
                            !.ban_on = conf.ban_on_limit])
               ELSE UNCHANGED <<issued, handlers>>
    /\ last' = "msg"
    /\ UNCHANGED <<ver, scan, fs, running, platform>>

\* faulty variant: the warning is recorded only if the message was deleted
DeleteReturn_only_deleted(i, ok, W) ==
    /\ i \in 1..Len(handlers)
    /\ handlers[i].kind = "msg" /\ handlers[i].pc = "delete"
    /\ \E w \in W :
         LET h == handlers[i]
             st == IF ok
                   THEN increment_warning(ver, Store(data, disk, faults),
                                          h.chat, h.target, w)
                   ELSE Store(data, disk, faults)
         IN /\ Commit(st)
            /\ handlers' =
                 IF st.raised THEN Remove(handlers, i)
                 ELSE [handlers EXCEPT
                         ![i].pc = "notify",
                         ![i].n = get_warnings(st.data, h.chat, h.target)]
    /\ last' = handlers[i].kind
    /\ UNCHANGED <<ver, scan, fs, running, platform, issued>>

\* msg.delete() returned or raised: the warning is recorded either way
DeleteReturn(i, ok, W) ==
    /\ i \in 1..Len(handlers)
    /\ handlers[i].kind = "msg" /\ handlers[i].pc = "delete"
    /\ \E w \in W :
         LET h == handlers[i]
             st == increment_warning(ver, Store(data, disk, faults),
                                     h.chat, h.target, w)
         IN /\ Commit(st)
            /\ handlers' =
                 IF st.raised THEN Remove(handlers, i)
                 ELSE [handlers EXCEPT
                         ![i].pc = "notify",
                         ![i].n = get_warnings(st.data, h.chat, h.target)]
    /\ last' = handlers[i].kind
    /\ UNCHANGED <<ver, scan, fs, running, platform, issued>>

\* faulty variant: the threshold is the only test
NotifyReturn_no_switch(i, ok) ==
    /\ i \in 1..Len(handlers)
    /\ handlers[i].kind = "msg" /\ handlers[i].pc = "notify"
    /\ handlers' =
         IF handlers[i].n >= handlers[i].limit
         THEN [handlers EXCEPT ![i].pc = "ban"]
         ELSE Remove(handlers, i)
    /\ last' = handlers[i].kind
    /\ UNCHANGED <<ver, scan, fs, running, data, disk, platform, faults,
                   issued>>

\* the warning notice was sent or not: the threshold is checked either way
NotifyReturn(i, ok) ==
    /\ i \in 1..Len(handlers)
    /\ handlers[i].kind = "msg" /\ handlers[i].pc = "notify"
    /\ handlers' =
         IF handlers[i].n >= handlers[i].limit /\ handlers[i].ban_on
         THEN [handlers EXCEPT ![i].pc = "ban"]
         ELSE Remove(handlers, i)
    /\ last' = handlers[i].kind
    /\ UNCHANGED <<ver, scan, fs, running, data, disk, platform, faults, issued>>

\* faulty variant: the ban is recorded before the gateway has answered
MsgBanReturn_optimistic(i, ok, W) ==
    /\ i \in 1..Len(handlers)
    /\ handlers[i].kind = "msg" /\ handlers[i].pc = "ban"
    /\ LET h == handlers[i]
       IN \E w \in W :
             LET st == ban_user_record(ver, Store(data, disk, faults),
                                       h.chat, h.target, w)
             IN /\ Commit(st)
                /\ platform' = IF ok THEN platform \cup {<<h.chat, h.target>>}
                               ELSE platform
                /\ handlers' =
                     IF st.raised \/ ~ok THEN Remove(handlers, i)
                     ELSE [handlers EXCEPT ![i].pc = "banmsg"]
    /\ last' = handlers[i].kind
    /\ UNCHANGED <<ver, scan, fs, running, issued>>

\* ban_chat_member returned (ok) or raised
MsgBanReturn(i, ok, W) ==
    /\ i \in 1..Len(handlers)
    /\ handlers[i].kind = "msg" /\ handlers[i].pc = "ban"
    /\ LET h == handlers[i]
       IN IF ok
          THEN \E w \in W :
                 LET st == ban_user_record(ver, Store(data, disk, faults),
                                           h.chat, h.target, w)
                 IN /\ Commit(st)
                    /\ platform' = platform \cup {<<h.chat, h.target>>}
                    /\ handlers' =
                         IF st.raised THEN Remove(handlers, i)
                         ELSE [handlers EXCEPT ![i].pc = "banmsg"]
          ELSE /\ handlers' = Remove(handlers, i)
               /\ UNCHANGED <<data, disk, faults, platform>>
    /\ last' = handlers[i].kind
    /\ UNCHANGED <<ver, scan, fs, running, issued>>

\* the ban notice was sent or not
BanMsgReturn(i, ok) ==
    /\ i \in 1..Len(handlers)
    /\ handlers[i].kind = "msg" /\ handlers[i].pc = "banmsg"
    /\ handlers' = Remove(handlers, i)
    /\ last' = handlers[i].kind
    /\ UNCHANGED <<ver, scan, fs, running, data, disk, platform, faults, issued>>

(***************************************************************************)
(* The last reply of a command.                                            *)
(***************************************************************************)
ReplyReturn(i, ok) ==
    /\ i \in 1..Len(handlers)
    /\ \/ /\ handlers[i].pc = "reply"
          /\ handlers' = Remove(handlers, i)
       \/ /\ handlers[i].pc = "reply_try"
          /\ handlers' =
               IF ok THEN Remove(handlers, i)
               ELSE Reply(handlers, i, "failed")
    /\ last' = handlers[i].kind
    /\ UNCHANGED <<ver, scan, fs, running, data, disk, platform, faults, issued>>

(***************************************************************************)
(* Command arguments.  replied is the author of the message the command    *)
(* replies to ("None" without a reply); arg is context.args[0]: absent, a  *)
(* string of digits naming user, an @handle of user, or something else.    *)
(***************************************************************************)
NoArg == [kind |-> "none", user |-> "None"]
IdArg(u) == [kind |-> "id", user |-> u]
HandleArg(u) == [kind |-> "handle", user |-> u]
JunkArg == [kind |-> "junk", user |-> "None"]

Args(T) == {NoArg, JunkArg} \cup {IdArg(u) : u \in T} \cup {HandleArg(u) : u \in T}

(***************************************************************************)
(* cmd_warn                                                                *)
(***************************************************************************)
WarnAccept(cap, c, actor, replied, W) ==
    /\ running
    /\ Len(handlers) < cap
    /\ LET h == HNew("warn", "reply", c, actor, replied)
       IN IF ~is_admin(actor)
          THEN /\ handlers' = Reply(Append(handlers, h), Len(handlers) + 1,
                                    "not permitted")
               /\ UNCHANGED <<data, disk, faults, issued>>
          ELSE IF replied = "None"
          THEN /\ handlers' = Reply(Append(handlers, h), Len(handlers) + 1,
                                    "usage")
               /\ UNCHANGED <<data, disk, faults, issued>>
          ELSE \E w \in W :
                 LET st == increment_warning(ver, Store(data, disk, faults),
                                             c, replied, w)
                 IN /\ issued[<<c, replied>>] < MaxWarn
                    /\ issued' = [issued EXCEPT ![<<c, replied>>] = @ + 1]
                    /\ Commit(st)
                    /\ handlers' =
                         IF st.raised THEN handlers
                         ELSE Append(handlers,
                                [h EXCEPT
                                   !.pc = "warned",
                                   !.n = get_warnings(st.data, c, replied)])
    /\ last' = "warn"
    /\ UNCHANGED <<ver, scan, fs, running, platform>>

\* reply_text("Warned ...") returned or raised; it is outside any try
WarnReplyReturn(i, ok) ==
    /\ i \in 1..Len(handlers)
    /\ handlers[i].kind = "warn" /\ handlers[i].pc = "warned"
    /\ LET h == handlers[i]
           conf == effective_config(ver, data, h.chat)
       IN handlers' =
            IF ~ok THEN Remove(handlers, i)
            ELSE IF h.n >= conf.warn_limit /\ conf.ban_on_limit
            THEN [handlers EXCEPT ![i].pc = "ban"]
            ELSE Remove(handlers, i)
    /\ last' = handlers[i].kind
    /\ UNCHANGED <<ver, scan, fs, running, data, disk, platform, faults, issued>>

\* ban_chat_member of a command (warn at the threshold, or ban) returned
\* or raised; the except clause replies with the error
CmdBanReturn(i, ok, W) ==
    /\ i \in 1..Len(handlers)
    /\ handlers[i].kind \in {"warn", "ban"} /\ handlers[i].pc = "ban"
    /\ LET h == handlers[i]
       IN IF ok
          THEN \E w \in W :
                 LET st == ban_user_record(ver, Store(data, disk, faults),
                                           h.chat, h.target, w)
                 IN /\ Commit(st)
                    /\ platform' = platform \cup {<<h.chat, h.target>>}
                    /\ handlers' =
                         IF st.raised THEN Reply(handlers, i, "failed")
                         ELSE ReplyTry(handlers, i, "banned")
          ELSE /\ handlers' = Reply(handlers, i, "failed")
               /\ UNCHANGED <<data, disk, faults, platform>>
    /\ last' = handlers[i].kind
    /\ UNCHANGED <<ver, scan, fs, running, issued>>

(***************************************************************************)
(* cmd_ban                                                                 *)
(***************************************************************************)
\* faulty variant: the argument is taken for the target whatever it is
ban_target_any(replied, arg) ==
    IF replied # "None" THEN replied
    ELSE IF arg.kind \in {"id", "handle"} THEN arg.user
    ELSE "None"

\* the target of /ban: the replied user, else a numeric argument
ban_target(replied, arg) ==
    IF replied # "None" THEN replied
    ELSE IF arg.kind = "id" THEN arg.user
    ELSE "None"

BanAccept(cap, c, actor, replied, arg) ==
    /\ running
    /\ Len(handlers) < cap
    /\ LET target == ban_target(replied, arg)
           h == HNew("ban", "ban", c, actor, target)
       IN handlers' =
            IF ~is_admin(actor)
            THEN Reply(Append(handlers, h), Len(handlers) + 1,
                       "not permitted")
            ELSE IF target = "None"
            THEN Reply(Append(handlers, h), Len(handlers) + 1, "usage")
            ELSE Append(handlers, h)
    /\ last' = "ban"
    /\ UNCHANGED <<ver, scan, fs, running, data, disk, platform, faults, issued>>

(***************************************************************************)
(* cmd_unban                                                               *)
(***************************************************************************)
UnbanAccept(cap, c, actor, arg) ==
    /\ running
    /\ Len(handlers) < cap
    /\ LET h == HNew("unban", "unban", c, actor, arg.user)
       IN handlers' =
            IF ~is_admin(actor)
            THEN Reply(Append(handlers, h), Len(handlers) + 1,
                       "not permitted")
            ELSE IF arg.kind # "id"
            THEN Reply(Append(handlers, h), Len(handlers) + 1, "usage")
            ELSE Append(handlers, h)
    /\ last' = "unban"
    /\ UNCHANGED <<ver, scan, fs, running, data, disk, platform, faults, issued>>

\* faulty variant: an unban takes one warning back
unban_record_forgive(v, st, chat_id, user_id, w) ==
    LET row == Get(st.data.warnings, chat_id, EmptyDict)
        new == Put(row, user_id, Get(row, user_id, 0) - 1)
    IN save_data(v, [st EXCEPT !.data.warnings = Put(@, chat_id, new)], w)

\* what cmd_unban does to the store once unban_chat_member has returned:
\* TGBot.py clears the ledger entry, TGBot2.py touches nothing
unban_record(v, st, chat_id, user_id, w) ==
    IF v = 1 THEN unban_user_record(st, chat_id, user_id, w) ELSE st

\* unban_chat_member returned (ok) or raised
UnbanReturn(i, ok, W) ==
    /\ i \in 1..Len(handlers)
    /\ handlers[i].kind = "unban" /\ handlers[i].pc = "unban"
    /\ LET h == handlers[i]
       IN IF ok
          THEN \E w \in W :
                 LET st == unban_record(ver, Store(data, disk, faults),
                                        h.chat, h.target, w)
                 IN /\ Commit(st)
                    /\ platform' = platform \ {<<h.chat, h.target>>}
                    /\ handlers' =
                         IF st.raised THEN Reply(handlers, i, "failed")
                         ELSE ReplyTry(handlers, i, "unbanned")
          ELSE /\ handlers' = Reply(handlers, i, "failed")
               /\ UNCHANGED <<data, disk, faults, platform>>
    /\ last' = handlers[i].kind
    /\ UNCHANGED <<ver, scan, fs, running, issued>>

(***************************************************************************)
(* cmd_kick                                                                *)
(***************************************************************************)
KickAccept(cap, c, actor, replied, arg) ==
    /\ running
    /\ Len(handlers) < cap
    /\ LET h == HNew("kick", "ban", c, actor, "None")
           k == Len(handlers) + 1
       IN handlers' =
            IF ~is_admin(actor)
            THEN Reply(Append(handlers, h), k, "not permitted")
            ELSE IF chat_type(c) = "private"
            THEN Reply(Append(handlers, h), k, "usage")
            ELSE IF replied # "None"
            THEN Append(handlers, [h EXCEPT !.target = replied])
            ELSE IF arg.kind = "id"
            THEN Append(handlers, [h EXCEPT !.target = arg.user])
            ELSE IF arg.kind = "handle"
            THEN Append(handlers,
                   [h EXCEPT !.pc = "resolve", !.target = arg.user])
            ELSE Reply(Append(handlers, h), k, "usage")
    /\ last' = "kick"
    /\ UNCHANGED <<ver, scan, fs, running, data, disk, platform, faults, issued>>

\* get_chat(@handle) returned the user or raised
KickResolveReturn(i, ok) ==
    /\ i \in 1..Len(handlers)
    /\ handlers[i].kind = "kick" /\ handlers[i].pc = "resolve"
    /\ handlers' =
         IF ok THEN [handlers EXCEPT ![i].pc = "ban"]
         ELSE Reply(handlers, i, "unresolved")
    /\ last' = handlers[i].kind
    /\ UNCHANGED <<ver, scan, fs, running, data, disk, platform, faults, issued>>

\* faulty variant: the kick records its ban in the ledger
KickBanReturn_recording(i, ok) ==
    /\ i \in 1..Len(handlers)
    /\ handlers[i].kind = "kick" /\ handlers[i].pc = "ban"
    /\ IF ok
       THEN LET st == ban_user_record(ver, Store(data, disk, faults),
                        handlers[i].chat, handlers[i].target, "ok")
            IN /\ Commit(st)
               /\ platform' =
                    platform \cup {<<handlers[i].chat, handlers[i].target>>}
               /\ handlers' = [handlers EXCEPT ![i].pc = "unban"]
       ELSE /\ handlers' = Reply(handlers, i, "failed")
            /\ UNCHANGED <<data, disk, faults, platform>>
    /\ last' = handlers[i].kind
    /\ UNCHANGED <<ver, scan, fs, running, issued>>

\* faulty variant: the unban is asked for whatever the ban returned
KickBanReturn_blind(i, ok) ==
    /\ i \in 1..Len(handlers)
    /\ handlers[i].kind = "kick" /\ handlers[i].pc = "ban"
    /\ platform' =
         IF ok THEN platform \cup {<<handlers[i].chat, handlers[i].target>>}
         ELSE platform
    /\ handlers' = [handlers EXCEPT ![i].pc = "unban"]
    /\ last' = handlers[i].kind
    /\ UNCHANGED <<ver, scan, fs, running, data, disk, faults, issued>>

\* ban_chat_member of the kick returned or raised
KickBanReturn(i, ok) ==
    /\ i \in 1..Len(handlers)
    /\ handlers[i].kind = "kick" /\ handlers[i].pc = "ban"
    /\ IF ok
       THEN /\ platform' =
                 platform \cup {<<handlers[i].chat, handlers[i].target>>}
            /\ handlers' = [handlers EXCEPT ![i].pc = "unban"]
       ELSE /\ handlers' = Reply(handlers, i, "failed")
            /\ UNCHANGED platform
    /\ last' = handlers[i].kind
    /\ UNCHANGED <<ver, scan, fs, running, data, disk, faults, issued>>

\* unban_chat_member(only_if_banned=True) of the kick returned or raised
KickUnbanReturn(i, ok) ==
    /\ i \in 1..Len(handlers)
    /\ handlers[i].kind = "kick" /\ handlers[i].pc = "unban"
    /\ IF ok
       THEN /\ platform' =
                 platform \ {<<handlers[i].chat, handlers[i].target>>}
            /\ handlers' = ReplyTry(handlers, i, "kicked")
       ELSE /\ handlers' = Reply(handlers, i, "failed")
            /\ UNCHANGED platform
    /\ last' = handlers[i].kind
    /\ UNCHANGED <<ver, scan, fs, running, data, disk, faults, issued>>

(***************************************************************************)
(* cmd_broadcast                                                           *)
(***************************************************************************)
\* list(data["users"].keys()); the order of the keys plays no part here
user_ids(d) == SetToSeq(DOMAIN d.users)

\* the recipients the loops of cmd_broadcast go through.  TGBot2.py reads
\* data["channels"] when the loop over the users has ended; no code changes
\* that list, so it is read here.
recipients(v, d, forward) ==
    IF v = 1 /\ forward THEN user_ids(d)
    ELSE user_ids(d) \o d.channels

Report(hs, i) == [hs EXCEPT ![i].pc = "reply", ![i].reply = "report"]

BroadcastAccept(cap, c, actor, replied, has_args) ==
    /\ running
    /\ Len(handlers) < cap
    /\ LET h == HNew("bcast", "send", c, actor, "None")
           k == Len(handlers) + 1
           forward == replied /\ ~has_args
           r == recipients(ver, data, forward)
       IN handlers' =
            IF ~is_admin(actor)
            THEN Reply(Append(handlers, h), k, "not permitted")
            ELSE IF ver = 1 /\ ~has_args /\ ~replied
            THEN Reply(Append(handlers, h), k, "usage")
            ELSE IF r = <<>>
            THEN Report(Append(handlers, h), k)
            ELSE Append(handlers, [h EXCEPT !.rcpts = r])
    /\ last' = "bcast"
    /\ UNCHANGED <<ver, scan, fs, running, data, disk, platform, faults, issued>>

\* the loop body once send_message / forward_message returned or raised
send_result(h, ok) ==
    [h EXCEPT
       !.tried = Append(@, [to |-> h.rcpts[Len(h.tried) + 1], ok |-> ok]),
       !.sent = IF ok THEN @ + 1 ELSE @,
       !.failed = IF ok THEN @ ELSE @ + 1]

\* faulty variant: the first send that fails ends the loop
SendReturn_abort(i, ok) ==
    /\ i \in 1..Len(handlers)
    /\ handlers[i].kind = "bcast" /\ handlers[i].pc = "send"
    /\ LET h == send_result(handlers[i], ok)
       IN handlers' =
            IF ~ok \/ Len(h.tried) = Len(h.rcpts)
            THEN Report([handlers EXCEPT ![i] = h], i)
            ELSE [handlers EXCEPT ![i] = h]
    /\ last' = "bcast"
    /\ UNCHANGED <<ver, scan, fs, running, data, disk, platform, faults, issued>>

SendReturn(i, ok) ==
    /\ i \in 1..Len(handlers)
    /\ handlers[i].kind = "bcast" /\ handlers[i].pc = "send"
    /\ LET h == send_result(handlers[i], ok)
       IN handlers' =
            IF Len(h.tried) = Len(h.rcpts)
            THEN Report([handlers EXCEPT ![i] = h], i)
            ELSE [handlers EXCEPT ![i] = h]
    /\ last' = "bcast"
    /\ UNCHANGED <<ver, scan, fs, running, data, disk, platform, faults, issued>>

(***************************************************************************)
(* cmd_setconfig (TGBot2.py).  context.args is a sequence of tokens, each  *)
(* a str.                                                                  *)
(***************************************************************************)
DigitSeq == <<"0","1","2","3","4","5","6","7","8","9">>

\* str.startswith(p)
StartsWith(s, p) == At(s, 1, p)

\* token.split("=", 1)[1] of a token that starts with the prefix p, which
\* ends with its first "="
AfterPrefix(s, p) == SubSeq(s, Len(p) + 1, Len(s))

\* str.isdigit() over ASCII
isdigit(s) == s # <<>> /\ \A i \in 1..Len(s) : s[i] \in Digits

\* int(s) of a string of digits
RECURSIVE int(_)
int(s) ==
    IF s = <<>> THEN 0
    ELSE 10 * int(SubSeq(s, 1, Len(s) - 1))
           + (CHOOSE d \in 0..9 : DigitSeq[d + 1] = s[Len(s)])

\* str.strip()
RECURSIVE strip(_)
strip(s) ==
    IF s = <<>> THEN s
    ELSE IF s[1] \in Whitespace THEN strip(Tail(s))
    ELSE IF s[Len(s)] \in Whitespace THEN strip(SubSeq(s, 1, Len(s) - 1))
    ELSE s

\* value.lower() in ("1", "true", "yes", "on")
truthy(s) ==
    lower(s) \in { <<"1">>, <<"t","r","u","e">>, <<"y","e","s">>,
                   <<"o","n">> }

P_delete_links == <<"d","e","l","e","t","e","_","l","i","n","k","s","=">>
P_warn_limit == <<"w","a","r","n","_","l","i","m","i","t","=">>
P_ban_on_limit == <<"b","a","n","_","o","n","_","l","i","m","i","t","=">>
P_add_banned == <<"a","d","d","_","b","a","n","n","e","d","=">>
P_remove_banned == <<"r","e","m","o","v","e","_","b","a","n","n","e","d","=">>

\* one turn of the loop over the tokens
apply_token(conf, token) ==
    IF StartsWith(token, P_delete_links)
    THEN [conf EXCEPT
            !.delete_links = truthy(AfterPrefix(token, P_delete_links))]
    ELSE IF /\ StartsWith(token, P_warn_limit)
            /\ isdigit(AfterPrefix(token, P_warn_limit))
    THEN [conf EXCEPT !.warn_limit = int(AfterPrefix(token, P_warn_limit))]
    ELSE IF StartsWith(token, P_ban_on_limit)
    THEN [conf EXCEPT
            !.ban_on_limit = truthy(AfterPrefix(token, P_ban_on_limit))]
    ELSE IF StartsWith(token, P_add_banned)
    THEN [conf EXCEPT
            !.banned_words =
               @ \cup {lower(strip(AfterPrefix(token, P_add_banned)))}]
    ELSE IF StartsWith(token, P_remove_banned)
    THEN [conf EXCEPT
            !.banned_words =
               @ \ {lower(strip(AfterPrefix(token, P_remove_banned)))}]
    ELSE conf

\* the loop: conf after the tokens args[i..]
RECURSIVE apply_tokens(_, _, _)
apply_tokens(conf, args, i) ==
    IF i > Len(args) THEN conf
    ELSE apply_tokens(apply_token(conf, args[i]), args, i + 1)

set_chat_config(st, chat_id, conf, w) ==
    save_data(2, [st EXCEPT !.data.chats_config = Put(@, chat_id, conf)], w)

\* faulty variant: the tokens are applied to the defaults, not to the
\* policy the conversation has
SetconfigAccept_fresh(cap, c, actor, args, W) ==
    /\ running
    /\ ver = 2
    /\ Len(handlers) < cap
    /\ LET h == HNew("setconfig", "reply", c, actor, "None")
           k == Len(handlers) + 1
           hs == Append(handlers, h)
       IN IF ~is_admin(actor)
          THEN /\ handlers' = Reply(hs, k, "not permitted")
               /\ UNCHANGED <<data, disk, faults>>
          ELSE IF chat_type(c) = "private" \/ args = <<>>
          THEN /\ handlers' = Reply(hs, k, "usage")
               /\ UNCHANGED <<data, disk, faults>>
          ELSE \E w \in W :
                 LET conf == apply_tokens(
                                get_chat_config(DEFAULT_DATA, c), args, 1)
                     st == set_chat_config(Store(data, disk, faults),
                                           c, conf, w)
                 IN /\ Commit(st)
                    /\ handlers' = Reply(hs, k, "updated")
    /\ last' = "setconfig"
    /\ UNCHANGED <<ver, scan, fs, running, platform, issued>>

\* cmd_setconfig has no await before its last reply
SetconfigAccept(cap, c, actor, args, W) ==
    /\ running
    /\ ver = 2
    /\ Len(handlers) < cap
    /\ LET h == HNew("setconfig", "reply", c, actor, "None")
           k == Len(handlers) + 1
           hs == Append(handlers, h)
       IN IF ~is_admin(actor)
          THEN /\ handlers' = Reply(hs, k, "not permitted")
               /\ UNCHANGED <<data, disk, faults>>
          ELSE IF chat_type(c) = "private" \/ args = <<>>
          THEN /\ handlers' = Reply(hs, k, "usage")
               /\ UNCHANGED <<data, disk, faults>>
          ELSE \E w \in W :
                 LET conf == apply_tokens(get_chat_config(data, c), args, 1)
                     st == set_chat_config(Store(data, disk, faults),
                                           c, conf, w)
                 IN /\ Commit(st)
                    /\ handlers' = Reply(hs, k, "updated")
    /\ last' = "setconfig"
    /\ UNCHANGED <<ver, scan, fs, running, platform, issued>>

(***************************************************************************)
(* cmd_addfile, cmd_rmfile.  A file key is a str; the path of a document   *)
(* stored under key is FILES_DIR/<key>_<file name>.                        *)
(***************************************************************************)
Keys == {"k1"}
path_of(key) == <<key, "doc">>

AddfileAccept(cap, c, actor, has_doc, key) ==
    /\ running
    /\ Len(handlers) < cap
    /\ LET h == HNew("addfile", "get_file", c, actor, key)
           k == Len(handlers) + 1
           hs == Append(handlers, h)
       IN handlers' =
            IF ~is_admin(actor) THEN Reply(hs, k, "not permitted")
            ELSE IF ~has_doc \/ key = "None" THEN Reply(hs, k, "usage")
            ELSE hs
    /\ last' = "addfile"
    /\ UNCHANGED <<ver, scan, fs, running, data, disk, platform, faults, issued>>

\* doc.get_file() returned, or raised: the exception ends the handler
AddfileGetReturn(i, ok) ==
    /\ i \in 1..Len(handlers)
    /\ handlers[i].kind = "addfile" /\ handlers[i].pc = "get_file"
    /\ handlers' =
         IF ok THEN [handlers EXCEPT ![i].pc = "download"]
         ELSE Remove(handlers, i)
    /\ last' = "addfile"
    /\ UNCHANGED <<ver, scan, fs, running, data, disk, platform, faults, issued>>

\* download_to_drive returned: the entry is recorded; or it raised, with
\* the file written in part or not at all
AddfileDownloadReturn(i, ok, W) ==
    /\ i \in 1..Len(handlers)
    /\ handlers[i].kind = "addfile" /\ handlers[i].pc = "download"
    /\ LET key == handlers[i].target
       IN IF ok
          THEN \E w \in W :
                 LET st == save_data(ver,
                             [Store(data, disk, faults) EXCEPT
                                !.data.files =
                                   Put(@, key, [path |-> path_of(key),
                                                desc |-> ""])],
                             w)
                 IN /\ Commit(st)
                    /\ fs' = fs \cup {path_of(key)}
                    /\ handlers' =
                         IF st.raised THEN Remove(handlers, i)
                         ELSE Reply(handlers, i, "saved")
          ELSE /\ fs' \in {fs, fs \cup {path_of(key)}}
               /\ handlers' = Remove(handlers, i)
               /\ UNCHANGED <<data, disk, faults>>
    /\ last' = "addfile"
    /\ UNCHANGED <<ver, scan, running, platform, issued>>

\* cmd_rmfile has no await before its last reply; os.remove may raise,
\* which is swallowed
RmfileAccept(cap, c, actor, key, removed, W) ==
    /\ running
    /\ Len(handlers) < cap
    /\ LET h == HNew("rmfile", "reply", c, actor, key)
           k == Len(handlers) + 1
           hs == Append(handlers, h)
       IN IF ~is_admin(actor)
          THEN /\ handlers' = Reply(hs, k, "not permitted")
               /\ UNCHANGED <<data, disk, faults, fs>>
          ELSE IF key = "None"
          THEN /\ handlers' = Reply(hs, k, "usage")
               /\ UNCHANGED <<data, disk, faults, fs>>
          ELSE IF key \notin DOMAIN data.files
          THEN /\ handlers' = Reply(hs, k, "unknown key")
               /\ UNCHANGED <<data, disk, faults, fs>>
          ELSE \E w \in W :
                 LET path == data.files[key].path
                     st == save_data(ver,
                             [Store(data, disk, faults) EXCEPT
                                !.data.files =
                                   [x \in (DOMAIN @) \ {key} |-> @[x]]],
                             w)
                 IN /\ Commit(st)
                    /\ fs' = IF removed THEN fs \ {path} ELSE fs
                    /\ handlers' =
                         IF st.raised THEN handlers
                         ELSE Reply(hs, k, "removed")
    /\ last' = "rmfile"
    /\ UNCHANGED <<ver, scan, running, platform, issued>>

(***************************************************************************)
(* start                                                                   *)
(***************************************************************************)
StartAccept(cap, c, u, prof, W) ==
    /\ running
    /\ Len(handlers) < cap
    /\ \E w1, w2 \in W :
         LET st == IF ver = 2
                   THEN ensure_user_registered(
                          Store(data, disk, faults), u, prof, "None", w1, w2)
                   ELSE ensure_chat_user(
                          Store(data, disk, faults), c, u, prof, w1)
         IN /\ Commit(st)
            /\ handlers' =
                 IF st.raised THEN handlers
                 ELSE Reply(Append(handlers, HNew("hello", "reply", c, u, u)),
                            Len(handlers) + 1, "hello")
    /\ last' = "hello"
    /\ UNCHANGED <<ver, scan, fs, running, platform, issued>>

(***************************************************************************)
(* The classification of one text.                                         *)
(***************************************************************************)
\* message_handler: text = (msg.text or "") + " " + (msg.caption or "")
ScanCompose ==
    /\ scan.pc = "msg"
    /\ scan' = [scan EXCEPT
                  !.pc = "text",
                  !.text = text_of([body |-> scan.body,
                                    caption |-> scan.caption])]
    /\ last' = "scan"
    /\ UNCHANGED <<ver, running, data, disk, fs, platform, handlers, faults,
                   issued>>

\* TGBot2.py: link_present and banned_word of message_handler, and its
\* test with delete_links on; the loop over the set of words returns the
\* first match it meets, whichever the iteration order makes it
ScanClassify2 ==
    /\ ver = 2
    /\ scan.pc = "text"
    /\ LET found == banned_matches(scan.text, scan.words)
           link == text_contains_link(scan.text)
       IN \E w \in (IF found = {} THEN {<<>>} ELSE found) :
             scan' = [scan EXCEPT
                        !.pc = "done",
                        !.link_present = link,
                        !.banned_word = w,
                        !.flagged = link \/ w # <<>>]
    /\ last' = "scan"
    /\ UNCHANGED <<ver, running, data, disk, fs, platform, handlers, faults,
                   issued>>

\* TGBot.py: the one test of message_handler, on the constant BANNED_WORDS
ScanClassify1 ==
    /\ ver = 1
    /\ scan.pc = "text"
    /\ scan' = [scan EXCEPT
                  !.pc = "done",
                  !.flagged = contains_link_or_banned(scan.text)]
    /\ last' = "scan"
    /\ UNCHANGED <<ver, running, data, disk, fs, platform, handlers, faults,
                   issued>>

(***************************************************************************)
(* Inputs.                                                                 *)
(***************************************************************************)
\* the names a user may bear from one message to the next
Renames == {"p1", "p2"}
Profiles == {"p1"}
Members == {"u1"}
Roster == {"u1", "u2"}
Actors == {"adm", "u1"}
Replied(T) == T \cup {"None"}

(***************************************************************************)
(* Next-state relations.  cap is the number of updates the Application     *)
(* processes at a time: 1 as built in the source (no concurrent_updates),  *)
(* more where a property is about overlapping handlers.  W is the set of   *)
(* outcomes a write of data.json may have.                                 *)
(***************************************************************************)
Receive(cap, CS, US, W) ==
    \E c \in CS, u \in US, p \in Profiles, m \in Messages :
        MessageAccept(cap, c, u, p, m.body, m.caption, W)

Warn(cap, CS, W) ==
    \E c \in CS, a \in Actors, r \in Replied(Members) :
        WarnAccept(cap, c, a, r, W)

Ban(cap, CS) ==
    \E c \in CS, a \in Actors, r \in Replied(Members), g \in Args(Members) :
        BanAccept(cap, c, a, r, g)

Unban(cap, CS) ==
    \E c \in CS, a \in Actors, g \in Args(Members) :
        UnbanAccept(cap, c, a, g)

Kick(cap, CS) ==
    \E c \in CS, a \in Actors, r \in Replied(Members), g \in Args(Members) :
        KickAccept(cap, c, a, r, g)

Broadcast(cap, CS) ==
    \E c \in CS, a \in Actors, r \in BOOLEAN, g \in BOOLEAN :
        BroadcastAccept(cap, c, a, r, g)

\* the token lists an actor may send with /setconfig
T_warn0 == P_warn_limit \o <<"0">>
T_warn02 == P_warn_limit \o <<"0","2">>
T_warnx == P_warn_limit \o <<"x">>
T_links_off == P_delete_links \o <<"o","f","f">>
T_links_on == P_delete_links \o <<"O","N">>
T_ban_no == P_ban_on_limit \o <<"n","o">>
T_add_spam == P_add_banned \o TxtSpam
T_rm_spam == P_remove_banned \o <<"s","p","a","m">>
T_rm_bad == P_remove_banned \o TxtBad
T_junk == <<"j","u","n","k">>

TokenLists ==
    { <<>>, <<T_warn0>>, <<T_warn02>>, <<T_warnx>>, <<T_links_off>>,
      <<T_links_on>>, <<T_ban_no>>, <<T_add_spam>>, <<T_rm_spam>>,
      <<T_rm_bad>>, <<T_junk>>, <<T_links_off, T_warn0>> }
PolicyTokenLists == { <<T_ban_no>>, <<T_warn02>> }
FewTokenLists == { <<>>, <<T_warn02>> }

Setconfig(cap, CS, TS, W) ==
    \E c \in CS, a \in Actors, args \in TS :
        SetconfigAccept(cap, c, a, args, W)

Addfile(cap, CS) ==
    \E c \in CS, a \in Actors, d \in BOOLEAN, k \in Keys \cup {"None"} :
        AddfileAccept(cap, c, a, d, k)

Rmfile(cap, CS, W) ==
    \E c \in CS, a \in Actors, k \in Keys \cup {"None"}, r \in BOOLEAN :
        RmfileAccept(cap, c, a, k, r, W)

Start(cap, CS, US, W) ==
    \E c \in CS, u \in US, p \in Profiles :
        StartAccept(cap, c, u, p, W)

\* the program as built: one update at a time, writes that may fail
Next ==
    \/ Restart
    \/ Receive(1, Chats, Members, Writes(faults))
    \/ Warn(1, Groups, Writes(faults))
    \/ Ban(1, Groups)
    \/ Unban(1, Groups)
    \/ Kick(1, Chats)
    \/ Broadcast(1, Privates)
    \/ \E i \in 1..Len(handlers), ok \in BOOLEAN :
          DeleteReturn(i, ok, Writes(faults))
    \/ \E i \in 1..Len(handlers), ok \in BOOLEAN :
          NotifyReturn(i, ok)
    \/ \E i \in 1..Len(handlers), ok \in BOOLEAN :
          MsgBanReturn(i, ok, Writes(faults))
    \/ \E i \in 1..Len(handlers), ok \in BOOLEAN :
          BanMsgReturn(i, ok)
    \/ \E i \in 1..Len(handlers), ok \in BOOLEAN :
          WarnReplyReturn(i, ok)
    \/ \E i \in 1..Len(handlers), ok \in BOOLEAN :
          CmdBanReturn(i, ok, Writes(faults))
    \/ \E i \in 1..Len(handlers), ok \in BOOLEAN :
          UnbanReturn(i, ok, Writes(faults))
    \/ \E i \in 1..Len(handlers), ok \in BOOLEAN :
          KickResolveReturn(i, ok)
    \/ \E i \in 1..Len(handlers), ok \in BOOLEAN :
          KickBanReturn(i, ok)
    \/ \E i \in 1..Len(handlers), ok \in BOOLEAN :
          KickUnbanReturn(i, ok)
    \/ \E i \in 1..Len(handlers), ok \in BOOLEAN :
          SendReturn(i, ok)
    \/ \E i \in 1..Len(handlers), ok \in BOOLEAN :
          ReplyReturn(i, ok)

Spec == Init /\ [][Next]_vars

\* handlers that overlap: NHandlers updates are processed at a time, and
\* they interleave at every await
NextConcurrent ==
    \/ Receive(NHandlers, Chats, Members, {"ok"})
    \/ Warn(NHandlers, Groups, {"ok"})
    \/ \E i \in 1..Len(handlers), ok \in BOOLEAN :
          DeleteReturn(i, ok, {"ok"})
    \/ \E i \in 1..Len(handlers), ok \in BOOLEAN :
          NotifyReturn(i, ok)
    \/ \E i \in 1..Len(handlers), ok \in BOOLEAN :
          MsgBanReturn(i, ok, {"ok"})
    \/ \E i \in 1..Len(handlers), ok \in BOOLEAN :
          BanMsgReturn(i, ok)
    \/ \E i \in 1..Len(handlers), ok \in BOOLEAN :
          WarnReplyReturn(i, ok)
    \/ \E i \in 1..Len(handlers), ok \in BOOLEAN :
          CmdBanReturn(i, ok, {"ok"})
    \/ \E i \in 1..Len(handlers), ok \in BOOLEAN :
          ReplyReturn(i, ok)

SpecConcurrent == Init /\ [][NextConcurrent]_vars

\* the broadcast over a roster of several users and a channel
NextBroadcast ==
    \/ Restart
    \/ Receive(1, Privates, Roster, Writes(faults))
    \/ Broadcast(1, Privates)
    \/ \E i \in 1..Len(handlers), ok \in BOOLEAN :
          SendReturn(i, ok)
    \/ \E i \in 1..Len(handlers), ok \in BOOLEAN :
          ReplyReturn(i, ok)

\* a gateway call returns or times out, and the event loop resumes the
\* coroutine that awaits it
BroadcastProgress ==
    \E i \in 1..Len(handlers), ok \in BOOLEAN :
        SendReturn(i, ok) \/ ReplyReturn(i, ok)

SpecBroadcast ==
    /\ InitFrom(BroadcastSeeds)
    /\ [][NextBroadcast]_vars
    /\ WF_vars(BroadcastProgress)


\* the policies of two groups under /setconfig, with the messages the
\* policy of g1 applies to
NextConfig ==
    \/ Restart
    \/ Setconfig(1, Chats, TokenLists, {"ok"})
    \/ Setconfig(1, OtherGroups, FewTokenLists, {"ok"})
    \/ Receive(1, Groups, Members, {"ok"})
    \/ \E i \in 1..Len(handlers), ok \in BOOLEAN :
          DeleteReturn(i, ok, {"ok"})
    \/ \E i \in 1..Len(handlers), ok \in BOOLEAN :
          NotifyReturn(i, ok)
    \/ \E i \in 1..Len(handlers), ok \in BOOLEAN :
          MsgBanReturn(i, ok, {"ok"})
    \/ \E i \in 1..Len(handlers), ok \in BOOLEAN :
          BanMsgReturn(i, ok)
    \/ \E i \in 1..Len(handlers), ok \in BOOLEAN :
          ReplyReturn(i, ok)

SpecConfig == Init /\ [][NextConfig]_vars

\* every command of the two files, by the admin and by another user
NextAdmin ==
    \/ Restart
    \/ Start(1, Privates, Members, {"ok"})
    \/ Receive(1, Groups, Members, {"ok"})
    \/ Warn(1, Groups, {"ok"})
    \/ Ban(1, Groups)
    \/ Unban(1, Groups)
    \/ Kick(1, Groups)
    \/ Broadcast(1, Privates)
    \/ Setconfig(1, Groups, FewTokenLists, {"ok"})
    \/ Addfile(1, Privates)
    \/ Rmfile(1, Privates, {"ok"})
    \/ \E i \in 1..Len(handlers), ok \in BOOLEAN :
          DeleteReturn(i, ok, {"ok"})
    \/ \E i \in 1..Len(handlers), ok \in BOOLEAN :
          NotifyReturn(i, ok)
    \/ \E i \in 1..Len(handlers), ok \in BOOLEAN :
          MsgBanReturn(i, ok, {"ok"})
    \/ \E i \in 1..Len(handlers), ok \in BOOLEAN :
          BanMsgReturn(i, ok)
    \/ \E i \in 1..Len(handlers), ok \in BOOLEAN :
          WarnReplyReturn(i, ok)
    \/ \E i \in 1..Len(handlers), ok \in BOOLEAN :
          CmdBanReturn(i, ok, {"ok"})
    \/ \E i \in 1..Len(handlers), ok \in BOOLEAN :
          UnbanReturn(i, ok, {"ok"})
    \/ \E i \in 1..Len(handlers), ok \in BOOLEAN :
          KickResolveReturn(i, ok)
    \/ \E i \in 1..Len(handlers), ok \in BOOLEAN :
          KickBanReturn(i, ok)
    \/ \E i \in 1..Len(handlers), ok \in BOOLEAN :
          KickUnbanReturn(i, ok)
    \/ \E i \in 1..Len(handlers), ok \in BOOLEAN :
          SendReturn(i, ok)
    \/ \E i \in 1..Len(handlers), ok \in BOOLEAN :
          AddfileGetReturn(i, ok)
    \/ \E i \in 1..Len(handlers), ok \in BOOLEAN :
          AddfileDownloadReturn(i, ok, {"ok"})
    \/ \E i \in 1..Len(handlers), ok \in BOOLEAN :
          ReplyReturn(i, ok)

SpecAdmin == Init /\ [][NextAdmin]_vars

\* the operations that change the store, asked for by the admin, with
\* writes of data.json that may fail
NextStore ==
    \/ Restart
    \/ Start(1, Privates, Members, Writes(faults))
    \/ Receive(1, Groups, Members, Writes(faults))
    \/ \E c \in Groups : UnbanAccept(1, c, "adm", IdArg("u1"))
    \/ \E args \in FewTokenLists, c \in Groups :
          SetconfigAccept(1, c, "adm", args, Writes(faults))
    \/ \E k \in Keys : AddfileAccept(1, "pm", "adm", TRUE, k)
    \/ \E k \in Keys, r \in BOOLEAN :
          RmfileAccept(1, "pm", "adm", k, r, Writes(faults))
    \/ \E i \in 1..Len(handlers), ok \in BOOLEAN :
          DeleteReturn(i, ok, Writes(faults))
    \/ \E i \in 1..Len(handlers), ok \in BOOLEAN :
          NotifyReturn(i, ok)
    \/ \E i \in 1..Len(handlers), ok \in BOOLEAN :
          MsgBanReturn(i, ok, Writes(faults))
    \/ \E i \in 1..Len(handlers), ok \in BOOLEAN :
          BanMsgReturn(i, ok)
    \/ \E i \in 1..Len(handlers), ok \in BOOLEAN :
          UnbanReturn(i, ok, Writes(faults))
    \/ \E i \in 1..Len(handlers), ok \in BOOLEAN :
          AddfileGetReturn(i, ok)
    \/ \E i \in 1..Len(handlers), ok \in BOOLEAN :
          AddfileDownloadReturn(i, ok, Writes(faults))
    \/ \E i \in 1..Len(handlers), ok \in BOOLEAN :
          ReplyReturn(i, ok)

SpecStore == Init /\ [][NextStore]_vars

\* the classifiers applied to one message or one text
NextClassify ==
    \/ ScanCompose
    \/ ScanClassify2
    \/ ScanClassify1

InitClassify == InitStore(SeedFiles) /\ scan \in ScanInputs

SpecClassify == InitClassify /\ [][NextClassify]_vars

\* violations, automatic and manual, under the policies /setconfig gives
\* a group
NextPolicy ==
    \/ Setconfig(1, Groups, PolicyTokenLists, {"ok"})
    \/ Receive(1, Groups, Members, {"ok"})
    \/ Warn(1, Groups, {"ok"})
    \/ \E i \in 1..Len(handlers), ok \in BOOLEAN :
          DeleteReturn(i, ok, {"ok"})
    \/ \E i \in 1..Len(handlers), ok \in BOOLEAN :
          NotifyReturn(i, ok)
    \/ \E i \in 1..Len(handlers), ok \in BOOLEAN :
          MsgBanReturn(i, ok, {"ok"})
    \/ \E i \in 1..Len(handlers), ok \in BOOLEAN :
          BanMsgReturn(i, ok)
    \/ \E i \in 1..Len(handlers), ok \in BOOLEAN :
          WarnReplyReturn(i, ok)
    \/ \E i \in 1..Len(handlers), ok \in BOOLEAN :
          CmdBanReturn(i, ok, {"ok"})
    \/ \E i \in 1..Len(handlers), ok \in BOOLEAN :
          ReplyReturn(i, ok)

SpecPolicy == Init /\ [][NextPolicy]_vars

\* the users of the roster seen again and again, under changing names
Observe(cap, CS, US, W) ==
    \E c \in CS, u \in US, p \in Renames, m \in Messages :
        MessageAccept(cap, c, u, p, m.body, m.caption, W)

Greet(cap, CS, US, W) ==
    \E c \in CS, u \in US, p \in Renames :
        StartAccept(cap, c, u, p, W)

NextRoster ==
    \/ Restart
    \/ Observe(1, Chats, Members, {"ok"})
    \/ Greet(1, Privates, Roster, {"ok"})
    \/ \E i \in 1..Len(handlers), ok \in BOOLEAN :
          DeleteReturn(i, ok, {"ok"})
    \/ \E i \in 1..Len(handlers), ok \in BOOLEAN :
          NotifyReturn(i, ok)
    \/ \E i \in 1..Len(handlers), ok \in BOOLEAN :
          MsgBanReturn(i, ok, {"ok"})
    \/ \E i \in 1..Len(handlers), ok \in BOOLEAN :
          BanMsgReturn(i, ok)
    \/ \E i \in 1..Len(handlers), ok \in BOOLEAN :
          ReplyReturn(i, ok)

SpecRoster == Init /\ [][NextRoster]_vars

\* moderation of u1 and u2 in g1, in a store that has entries of other
\* pairs
NextPairs ==
    \/ Receive(1, Groups, Roster, {"ok"})
    \/ \E c \in Groups, r \in Roster : WarnAccept(1, c, "adm", r, {"ok"})
    \/ \E c \in Groups, r \in Members : BanAccept(1, c, "adm", r, NoArg)
    \/ \E c \in Groups, r \in Roster : UnbanAccept(1, c, "adm", IdArg(r))
    \/ \E i \in 1..Len(handlers), ok \in BOOLEAN :
          DeleteReturn(i, ok, {"ok"})
    \/ \E i \in 1..Len(handlers), ok \in BOOLEAN :
          NotifyReturn(i, ok)
    \/ \E i \in 1..Len(handlers), ok \in BOOLEAN :
          MsgBanReturn(i, ok, {"ok"})
    \/ \E i \in 1..Len(handlers), ok \in BOOLEAN :
          BanMsgReturn(i, ok)
    \/ \E i \in 1..Len(handlers), ok \in BOOLEAN :
          WarnReplyReturn(i, ok)
    \/ \E i \in 1..Len(handlers), ok \in BOOLEAN :
          CmdBanReturn(i, ok, {"ok"})
    \/ \E i \in 1..Len(handlers), ok \in BOOLEAN :
          UnbanReturn(i, ok, {"ok"})
    \/ \E i \in 1..Len(handlers), ok \in BOOLEAN :
          ReplyReturn(i, ok)

InitPairs == InitFrom(PairsSeeds)

SpecPairs == InitPairs /\ [][NextPairs]_vars

(***************************************************************************)
(* Properties.                                                             *)
(***************************************************************************)
Pairs == {<<c, u>> : c \in AllChats, u \in Users}

Threshold(h) == effective_config(ver, data, h.chat).warn_limit

\* a handler of a violation (automatic, or a manual warn) that has asked
\* the gateway for a ban
AsksBan(h) == h.kind \in {"msg", "warn"} /\ h.pc = "ban"

\* C1: a violation asks the gateway for a ban only when its increment
\* brought the count to the threshold T exactly, that is once per pair: no
\* ban is asked for by a violation whose count is already above T.
C1_BanOnlyAtThreshold ==
    \A i \in 1..Len(handlers) :
        AsksBan(handlers[i]) => handlers[i].n = Threshold(handlers[i])

\* C2: the stored count of a pair is the count loaded at start plus the
\* violations processed since (those accepted, less the ones still waiting
\* for their delete call), and the value increment_warning returned to the
\* handler is the stored count, whatever the gateway calls returned.
C2_CountIsViolations ==
    /\ \A p \in Pairs :
          get_warnings(data, p[1], p[2]) + Pending(p[1], p[2]) = issued[p]
    /\ \A i \in 1..Len(handlers) :
          handlers[i].pc \in {"notify", "warned"} =>
             handlers[i].n =
                get_warnings(data, handlers[i].chat, handlers[i].target)

\* three violations of u1 in g1 were processed, the last by a message
\* handler whose ban the gateway refused
C2_Witness ==
    /\ handlers = <<>>
    /\ last = "msg"
    /\ get_warnings(data, "g1", "u1") = 3
    /\ issued[<<"g1", "u1">>] = 3
    /\ <<"g1", "u1">> \notin platform

\* C3: with handlers of one pair overlapping, the count in memory and the
\* count in data.json both equal the number of increments issued: no
\* interleaving loses an update.
C3_NoLostUpdate ==
    \A p \in Pairs :
        LET done == issued[p] - Pending(p[1], p[2])
        IN /\ get_warnings(data, p[1], p[2]) = done
           /\ disk.state = "json"
           /\ get_warnings(disk.content, p[1], p[2]) = done

\* two message handlers of the pair are in flight, both past their
\* increment
C3_Witness ==
    /\ Len(handlers) = 2
    /\ \A i \in 1..2 :
          /\ handlers[i].kind = "msg" /\ handlers[i].pc = "notify"
          /\ handlers[i].chat = "g1" /\ handlers[i].target = "u1"
    /\ get_warnings(data, "g1", "u1") = 2

C5_LedgerFollowsBanUnban ==
    [][\A i \in 1..Len(handlers) :
          /\ (handlers[i].kind = "ban"
                /\ CmdBanReturn(i, TRUE, Writes(faults)))
             => is_user_banned(data', handlers[i].chat, handlers[i].target)
          /\ UnbanReturn(i, TRUE, Writes(faults))
             => ~is_user_banned(data', handlers[i].chat, handlers[i].target)
      ]_vars

\* C6: an unban of a banned pair that succeeds returns the pair to CLEAN:
\* its warning count is 0 afterwards.
C6_UnbanReturnsToClean ==
    [][\A i \in 1..Len(handlers) :
          ( /\ UnbanReturn(i, TRUE, Writes(faults))
            /\ is_user_banned(data, handlers[i].chat, handlers[i].target) )
          => get_warnings(data', handlers[i].chat, handlers[i].target) = 0
      ]_vars

\* C7: an unban of a pair that is not in the ledger changes neither the
\* dict nor data.json and reports no error of the store; and an unban that
\* changed the store leaves the pair out of the ledger, so that a second
\* unban changes nothing more.
C7_UnbanIdempotent ==
    [][\A i \in 1..Len(handlers), ok \in BOOLEAN :
          UnbanReturn(i, ok, Writes(faults)) =>
             LET c == handlers[i].chat
                 u == handlers[i].target
             IN /\ ~is_user_banned(data, c, u) =>
                     /\ data' = data /\ disk' = disk
                     /\ ok => handlers'[i].reply = "unbanned"
                /\ data' # data => ~is_user_banned(data', c, u)
      ]_vars

\* TGBot.py has unbanned, with success, a user of a conversation that has
\* no list in the ledger
C7_Witness ==
    /\ ver = 1
    /\ Len(handlers) = 1
    /\ handlers[1].kind = "unban" /\ handlers[1].reply = "unbanned"
    /\ handlers[1].chat \notin DOMAIN data.banned
    /\ get_warnings(data, handlers[1].chat, handlers[1].target) > 0

\* C8: no step of a kick, whatever its gateway calls return, changes a
\* warning count or the ban ledger.
C8_KickLeavesStore ==
    [][last' = "kick" =>
          /\ data'.warnings = data.warnings
          /\ data'.banned = data.banned]_vars

\* a kick has banned and unbanned a user who has warnings and a ledger
\* entry
C8_Witness ==
    /\ Len(handlers) = 1
    /\ handlers[1].kind = "kick" /\ handlers[1].reply = "kicked"
    /\ get_warnings(data, handlers[1].chat, handlers[1].target) > 0
    /\ is_user_banned(data, handlers[1].chat, handlers[1].target)

Count(seq, P(_)) == Cardinality({k \in 1..Len(seq) : P(seq[k])})

Succeeded(t) == t.ok
Failed(t) == ~t.ok

\* C9: a broadcast goes through its recipients once each, in order, one
\* more at each gateway return whether the send failed or not; it reports
\* only when all were tried, sent being the sends that succeeded and
\* failed those that failed, sent + failed the number of recipients; and a
\* broadcast in flight ends.
C9_BroadcastTriesAll ==
    /\ [](\A i \in 1..Len(handlers) :
            handlers[i].kind = "bcast" =>
               LET h == handlers[i]
               IN /\ Len(h.tried) <= Len(h.rcpts)
                  /\ \A k \in 1..Len(h.tried) : h.tried[k].to = h.rcpts[k]
                  /\ h.sent = Count(h.tried, Succeeded)
                  /\ h.failed = Count(h.tried, Failed)
                  /\ h.pc = "send" => Len(h.tried) < Len(h.rcpts)
                  /\ h.reply = "report" =>
                        /\ Len(h.tried) = Len(h.rcpts)
                        /\ h.sent + h.failed = Len(h.rcpts))
    /\ (handlers # <<>>) ~> (handlers = <<>>)

\* a broadcast to three recipients reports one success and two failures,
\* the first send having failed
C9_Witness ==
    /\ Len(handlers) = 1
    /\ handlers[1].kind = "bcast" /\ handlers[1].reply = "report"
    /\ Len(handlers[1].rcpts) = 3
    /\ ~handlers[1].tried[1].ok
    /\ handlers[1].sent = 1 /\ handlers[1].failed = 2

\* C10: for a text and for a forwarded message alike, the recipients a
\* broadcast has tried when it reports are the registered users and the
\* configured channels.
C10_RecipientsAreRoster ==
    \A i \in 1..Len(handlers) :
        (handlers[i].kind = "bcast" /\ handlers[i].reply = "report") =>
           {handlers[i].tried[k].to : k \in 1..Len(handlers[i].tried)}
              = (DOMAIN data.users)
                   \cup {data.channels[k] : k \in 1..Len(data.channels)}

Privileged ==
    {"bcast", "kick", "warn", "ban", "unban", "addfile", "rmfile",
     "setconfig"}

\* the handler of a privileged command that another user than an admin
\* sent
Unprivileged(h) == h.kind \in Privileged /\ h.actor \notin ADMIN_IDS

\* C11: a privileged command of a user who is not an admin is answered
\* "not permitted" and nothing else: from its acceptance to its end the
\* dict, data.json, the files on the drive and the platform's bans stay as
\* they are, and the handler waits for no gateway call but its reply.
C11_UnprivilegedRejected ==
    /\ [](\A i \in 1..Len(handlers) :
            Unprivileged(handlers[i]) =>
               /\ handlers[i].pc = "reply"
               /\ handlers[i].reply = "not permitted"
               /\ handlers[i].tried = <<>>)
    /\ [][( /\ last' # "start"
            /\ \/ \E i \in 1..Len(handlers) : Unprivileged(handlers[i])
               \/ \E i \in 1..Len(handlers') : Unprivileged(handlers'[i]) )
          => /\ data' = data /\ disk' = disk
             /\ fs' = fs /\ platform' = platform]_vars

\* a user who is not an admin asked to remove a file that is registered
\* and on the drive, of a store that holds warnings
C11_Witness ==
    /\ Len(handlers) = 1
    /\ handlers[1].kind = "rmfile" /\ handlers[1].actor = "u1"
    /\ handlers[1].target = "k1"
    /\ handlers[1].reply = "not permitted"
    /\ "k1" \in DOMAIN data.files
    /\ path_of("k1") \in fs
    /\ get_warnings(data, "g1", "u1") > 0

Defaults ==
    [delete_links |-> TRUE, warn_limit |-> 3, ban_on_limit |-> TRUE,
     banned_words |-> GLOBAL_BANNED_WORDS]

\* C12: a conversation that has no entry in chats_config has the default
\* policy (threshold 3, deletion on, ban on, the global words and no
\* other), and no step but a /setconfig changes chats_config: the reads
\* of the policy leave it alone.
C12_UnsetIsDefault ==
    /\ [](\A c \in AllChats :
            c \notin DOMAIN data.chats_config =>
               effective_config(ver, data, c) = Defaults)
    /\ [][last' \notin {"setconfig", "start"} =>
             data'.chats_config = data.chats_config]_vars

\* TGBot2.py handles a violation in g1, which was never configured, with
\* the threshold 3, while g2 is configured
C12_Witness ==
    /\ ver = 2
    /\ "g1" \notin DOMAIN data.chats_config
    /\ "g2" \in DOMAIN data.chats_config
    /\ Len(handlers) = 1
    /\ handlers[1].kind = "msg" /\ handlers[1].chat = "g1"
    /\ handlers[1].pc = "notify"
    /\ handlers[1].limit = 3 /\ handlers[1].ban_on

StoredWords(c) ==
    Get(Get(data.chats_config, c, EmptyDict), "banned_words", {})

\* C13: the effective banned words of a conversation are its stored words
\* and the global words together; a /setconfig add_banned=Spam of the
\* admin in a group puts spam among them, and no /setconfig takes a global
\* word out of them.
C13_WordsIncludeGlobal ==
    /\ [](\A c \in AllChats :
            /\ effective_config(ver, data, c).banned_words
                  = StoredWords(c) \cup GLOBAL_BANNED_WORDS
            /\ GLOBAL_BANNED_WORDS
                  \subseteq effective_config(ver, data, c).banned_words)
    /\ [][\A c \in Groups \cup OtherGroups :
             ( /\ last' = "setconfig"
               /\ SetconfigAccept(1, c, "adm", <<T_add_spam>>, {"ok"}) ) =>
                /\ lower(TxtSpam)
                      \in effective_config(ver, data', c).banned_words
                /\ GLOBAL_BANNED_WORDS
                      \subseteq effective_config(ver, data', c).banned_words
         ]_vars

\* the stored words of g1 have spam and have lost the global badword1
C13_Witness ==
    /\ "g1" \in DOMAIN data.chats_config
    /\ lower(TxtSpam) \in data.chats_config["g1"].banned_words
    /\ TxtBad \notin data.chats_config["g1"].banned_words
    /\ TxtBad \in effective_config(ver, data, "g1").banned_words

Named(args, prefix) == \E i \in 1..Len(args) : StartsWith(args[i], prefix)

\* C14: a /setconfig in conversation c leaves every field of c's effective
\* policy that no token names as it was, and the policy of every other
\* conversation; adding a word that is there and removing a word that is
\* not change nothing and are answered as any update.
C14_SetconfigIsPartial ==
    [][(last' = "setconfig" /\ Len(handlers') = Len(handlers) + 1) =>
          LET c == handlers'[Len(handlers')].chat
              a == handlers'[Len(handlers')].actor
              old == effective_config(ver, data, c)
              new == effective_config(ver, data', c)
              done == is_admin(a) /\ chat_type(c) # "private"
          IN /\ \A args \in TokenLists :
                   SetconfigAccept(1, c, a, args, {"ok"}) =>
                      /\ ~Named(args, P_delete_links) =>
                            new.delete_links = old.delete_links
                      /\ ~Named(args, P_warn_limit) =>
                            new.warn_limit = old.warn_limit
                      /\ ~Named(args, P_ban_on_limit) =>
                            new.ban_on_limit = old.ban_on_limit
                      /\ (~Named(args, P_add_banned)
                            /\ ~Named(args, P_remove_banned)) =>
                            new.banned_words = old.banned_words
                      /\ (args = <<T_add_spam>>
                            /\ lower(TxtSpam) \in old.banned_words) =>
                            new = old
                      /\ (args = <<T_rm_spam>>
                            /\ lower(TxtSpam) \notin old.banned_words) =>
                            new = old
                      /\ (done /\ args # <<>>) =>
                            handlers'[Len(handlers')].reply = "updated"
             /\ \A o \in AllChats \ {c} :
                   /\ effective_config(ver, data', o)
                         = effective_config(ver, data, o)
                   /\ (o \in DOMAIN data'.chats_config)
                         = (o \in DOMAIN data.chats_config)
      ]_vars

\* g1 has been given a threshold, a ban switch and a word by separate
\* commands, g2 has a policy of its own
C14_Witness ==
    /\ Len(handlers) = 1
    /\ handlers[1].kind = "setconfig" /\ handlers[1].chat = "g1"
    /\ handlers[1].reply = "updated"
    /\ "g1" \in DOMAIN data.chats_config
    /\ "g2" \in DOMAIN data.chats_config
    /\ data.chats_config["g1"].warn_limit = 0
    /\ ~data.chats_config["g1"].ban_on_limit
    /\ data.chats_config["g1"].delete_links
    /\ lower(TxtSpam) \in data.chats_config["g1"].banned_words
    /\ data.chats_config["g2"].warn_limit = 2

\* C15: the threshold of every conversation, stored or effective, is an
\* integer of at least 1.
C15_ThresholdPositive ==
    \A c \in AllChats :
        /\ effective_config(ver, data, c).warn_limit \in Nat \ {0}
        /\ c \in DOMAIN data.chats_config =>
              data.chats_config[c].warn_limit \in Nat \ {0}

\* C16: a warning count, in the dict and in data.json, is never negative,
\* and no step of the running program takes a count down, unless to 0.
C16_CountsMonotone ==
    /\ [](\A p \in Pairs :
            /\ get_warnings(data, p[1], p[2]) >= 0
            /\ disk.state = "json" =>
                  get_warnings(disk.content, p[1], p[2]) >= 0)
    /\ [][last' # "start" =>
             \A p \in Pairs :
                \/ get_warnings(data', p[1], p[2])
                      >= get_warnings(data, p[1], p[2])
                \/ get_warnings(data', p[1], p[2]) = 0]_vars

\* TGBot.py has unbanned u1, whose three warnings are still there
C16_Witness ==
    /\ ver = 1
    /\ Len(handlers) = 1
    /\ handlers[1].kind = "unban" /\ handlers[1].reply = "unbanned"
    /\ handlers[1].chat = "g1" /\ handlers[1].target = "u1"
    /\ "g1" \in DOMAIN data.banned /\ data.banned["g1"] = <<>>
    /\ get_warnings(data, "g1", "u1") = 3

\* C17: a message in a private chat is registered and nothing more,
\* whatever its text: no handler waits for a delete, a notice or a ban,
\* and the warnings, the ledger and the platform's bans stay as they are;
\* and after a message of any conversation its sender is in data["users"]
\* with the conversation in "chats".
C17_PrivateExemptAllRegistered ==
    [][last' = "msg" =>
          \A c \in Chats, u \in Members, p \in Profiles, m \in Messages :
             MessageAccept(1, c, u, p, m.body, m.caption, Writes(faults)) =>
                /\ u \in DOMAIN data'.users
                /\ InList(data'.users[u].chats, c)
                /\ c \in Privates =>
                      /\ handlers' = handlers
                      /\ data'.warnings = data.warnings
                      /\ data'.banned = data.banned
                      /\ platform' = platform
      ]_vars

\* u1 has written in the private chat only: registered, without a warning
C17_Witness ==
    /\ last = "msg"
    /\ handlers = <<>>
    /\ "u1" \in DOMAIN data.users
    /\ data.users["u1"].chats = <<"pm">>
    /\ data.warnings = EmptyDict
    /\ platform = {}

\* C18: when msg.delete() of a violation returns or raises, the count of
\* the pair goes up by one; and the steps of the handler that follow (the
\* notice, the ban, the ban notice, each sent or failed) leave every count
\* as it is.
C18_IncrementSurvivesGateway ==
    [][last' = "msg" =>
          \A i \in 1..Len(handlers) :
             LET h == handlers[i]
             IN /\ \A ok \in BOOLEAN :
                      DeleteReturn(i, ok, Writes(faults)) =>
                         get_warnings(data', h.chat, h.target)
                            = get_warnings(data, h.chat, h.target) + 1
                /\ (h.kind = "msg"
                      /\ h.pc \in {"notify", "ban", "banmsg"}) =>
                      data'.warnings = data.warnings
      ]_vars

\* four violations of u1 were counted though the gateway refused every
\* ban
C18_Witness ==
    /\ handlers = <<>>
    /\ last = "msg"
    /\ get_warnings(data, "g1", "u1") = 4
    /\ <<"g1", "u1">> \notin platform
    /\ ~is_user_banned(data, "g1", "u1")

\* C19: while no write has failed data.json holds the dict as it is; and
\* a step of a handler whose writes all succeed, if it changes the dict or
\* data.json, leaves the whole dict in data.json, with what an earlier
\* failed write had left out.
C19_WriteThrough ==
    /\ [](faults = 0 => disk = File(data))
    /\ [][(last' # "start" /\ faults' = faults) =>
             ((data' # data \/ disk' # disk) => disk' = File(data'))]_vars

\* a write failed, and a later one has put the whole dict, with a user, a
\* warning and a file entry, in data.json
C19_Witness ==
    /\ faults = 1
    /\ handlers = <<>>
    /\ disk = File(data)
    /\ "u1" \in DOMAIN data.users
    /\ get_warnings(data, "g1", "u1") > 0
    /\ "k1" \in DOMAIN data.files

\* C20: the process is up after every start: an unreadable data.json gives
\* the default dict, and a missing data.json is written with the default
\* dict before the first update.
C20_LoadNeverCrashes ==
    /\ running
    /\ (last = "start" /\ disk.state = "corrupt") => data = DEFAULT_DATA
    /\ disk.state # "absent"

\* the banned words of a scan that can match: the empty word is skipped
ScanNonEmpty == {w \in scan.words : w # <<>>}

\* C24: a text matches a set of banned words, a word being a non-empty
\* lowercase string, exactly when one of them occurs in the lowercased
\* text; the word returned is one of those; with {"spam"} "SPAM now" and
\* "buy Spam1" match and "span" does not; the empty text matches nothing.
\* TGBot.py tests its constant words in the same way, next to its links.
C24_BannedWordSubstring ==
    scan.pc = "done" =>
       /\ ver = 2 =>
             /\ (scan.banned_word # <<>>) <=>
                   \E w \in ScanNonEmpty : Contains(lower(scan.text), w)
             /\ scan.banned_word # <<>> =>
                   /\ scan.banned_word \in scan.words
                   /\ Contains(lower(scan.text), scan.banned_word)
             /\ scan.text = <<>> => scan.banned_word = <<>>
             /\ ScanNonEmpty = {lower(TxtSpam)} =>
                   /\ scan.text \in {TxtSpamNow, TxtBuySpam} =>
                         scan.banned_word = lower(TxtSpam)
                   /\ scan.text = TxtSpan => scan.banned_word = <<>>
       /\ ver = 1 =>
             /\ scan.flagged <=>
                   \/ scan.text # <<>> /\ LINK_PATTERN(scan.text)
                   \/ \E w \in BANNED_WORDS : Contains(lower(scan.text), w)
             /\ scan.text = <<>> => ~scan.flagged

\* "buy Spam1" was matched by spam, the empty word of the set skipped
C24_Witness ==
    /\ ver = 2
    /\ scan.pc = "done"
    /\ scan.text = TxtBuySpam
    /\ scan.words = {<<>>, lower(TxtSpam)}
    /\ scan.banned_word = lower(TxtSpam)

\* C25: text_contains_link of TGBot2.py finds a link in every text that
\* contains "visit http://example.com now" and in every text that contains
\* "visit example[.]com now", and none in "just chatting"; its result is
\* a function of the text, and a classification changes neither the dict
\* nor data.json.
C25_LinkClassification ==
    /\ []((scan.pc = "done" /\ ver = 2) =>
            /\ Contains(scan.text, TxtVisitUrl) => scan.link_present
            /\ Contains(scan.text, TxtVisitObfuscated) => scan.link_present
            /\ scan.text \in {TxtJustChatting, TxtJustChatting \o <<" ">>}
                  => ~scan.link_present
            /\ scan.link_present = text_contains_link(scan.text))
    /\ [][scan' # scan => (data' = data /\ disk' = disk)]_vars

\* "visit example[.]com now", sent with a caption, was found to hold a
\* link
C25_Witness ==
    /\ ver = 2
    /\ scan.pc = "done"
    /\ scan.body = TxtVisitObfuscated
    /\ scan.caption = TxtHalfWord
    /\ scan.link_present

\* the banned words a version tests a message against
ScanBanned == IF ver = 2 THEN ScanNonEmpty ELSE BANNED_WORDS

\* C26: a message with a body and a caption is classified as the body
\* followed by the caption, so that a banned word that starts at the end
\* of the body and ends in the caption makes the message a violation.
C26_SplitWordMatched ==
    (scan.pc = "done" /\ scan.body # <<>> /\ scan.caption # <<>>) =>
       /\ scan.text = scan.body \o scan.caption
       /\ (\E w \in ScanBanned :
              Contains(lower(scan.body \o scan.caption), w))
             => scan.flagged

\* C21: a write of data.json that fails in a handler leaves the change in
\* the dict and lets the handler go on: the violation whose increment was
\* not written goes on to its notice, and the ban whose ledger entry was
\* not written is reported as done.
C21_WriteFailureKeepsGoing ==
    [][last' \in {"msg", "warn", "ban"} =>
          \A i \in 1..Len(handlers), ok \in BOOLEAN :
             LET h == handlers[i]
             IN /\ (DeleteReturn(i, ok, Writes(faults))
                      /\ faults' > faults) =>
                      /\ get_warnings(data', h.chat, h.target)
                            = get_warnings(data, h.chat, h.target) + 1
                      /\ Len(handlers') = Len(handlers)
                      /\ handlers'[i].pc = "notify"
                /\ (CmdBanReturn(i, TRUE, Writes(faults))
                      /\ faults' > faults) =>
                      /\ is_user_banned(data', h.chat, h.target)
                      /\ handlers'[i].reply = "banned"
      ]_vars

\* C22: a notice that could not be sent does not end the handler: after
\* the notice of a violation and after the reply of a /warn, sent or
\* failed, a count at the threshold with the ban switch on takes the
\* handler to its ban request.
C22_FailedNoticeStillBans ==
    [][last' \in {"msg", "warn"} =>
          \A i \in 1..Len(handlers), ok \in BOOLEAN :
             LET h == handlers[i]
                 conf == effective_config(ver, data, h.chat)
                 due == h.n >= conf.warn_limit /\ conf.ban_on_limit
             IN ((NotifyReturn(i, ok) \/ WarnReplyReturn(i, ok)) /\ due) =>
                   /\ Len(handlers') = Len(handlers)
                   /\ handlers'[i].pc = "ban"
      ]_vars

\* the handler of a /kick, /ban or /unban whose target is not known: the
\* lookup of a handle is awaited, or the command has been refused for its
\* arguments
TargetUnknown(h) ==
    /\ h.kind \in {"kick", "ban", "unban"}
    /\ h.pc = "resolve" \/ h.reply \in {"usage", "unresolved"}

\* C23: a /kick, /ban or /unban of the admin without a reply and without
\* an argument that names a user (none, or one that is neither digits nor,
\* for /kick, a handle), and a /kick whose handle lookup failed, are
\* answered with an error; as long as the target of such a handler is not
\* known no step changes the dict, data.json or the platform's bans, and
\* the refused handler waits for its reply only.
C23_UnresolvedTargetNoAction ==
    /\ [](\A i \in 1..Len(handlers) :
            (handlers[i].kind \in {"kick", "ban", "unban"}
               /\ handlers[i].reply \in {"usage", "unresolved"}) =>
               handlers[i].pc = "reply")
    /\ [][last' \in {"kick", "ban", "unban"} =>
            LET k == Len(handlers')
            IN /\ \A c \in Groups, g \in Args(Members) :
                     /\ (g.kind \in {"none", "junk"}
                           /\ KickAccept(1, c, "adm", "None", g)) =>
                           handlers'[k].reply = "usage"
                     /\ (g.kind # "id"
                           /\ \/ BanAccept(1, c, "adm", "None", g)
                              \/ UnbanAccept(1, c, "adm", g)) =>
                           handlers'[k].reply = "usage"
               /\ \A i \in 1..Len(handlers) :
                     KickResolveReturn(i, FALSE) =>
                        /\ handlers'[i].reply = "unresolved"
                        /\ handlers'[i].pc = "reply"
               /\ ( \/ \E i \in 1..Len(handlers) :
                          TargetUnknown(handlers[i])
                    \/ \E i \in 1..Len(handlers') :
                          TargetUnknown(handlers'[i]) ) =>
                     /\ data' = data /\ disk' = disk
                     /\ platform' = platform
         ]_vars

\* the handle of u1, who has warnings and is banned, could not be looked
\* up by a /kick
C23_Witness ==
    /\ Len(handlers) = 1
    /\ handlers[1].kind = "kick" /\ handlers[1].reply = "unresolved"
    /\ handlers[1].target = "u1"
    /\ get_warnings(data, "g1", "u1") > 0
    /\ <<"g1", "u1">> \in platform

\* C28: a pair enters the ledger only in the step in which the gateway
\* ban of that pair returned with success; when the gateway ban of a
\* violation or of a /ban fails, the dict (ledger and counts) and the
\* platform's bans stay as they are, the count of the violation is the
\* incremented one, and the handler does not ask for the ban again.
C28_LedgerOnlyAfterBan ==
    [][last' \in {"msg", "warn", "ban", "kick", "unban"} =>
          /\ \A p \in Pairs :
                (is_user_banned(data', p[1], p[2])
                   /\ ~is_user_banned(data, p[1], p[2])) =>
                   \E i \in 1..Len(handlers) :
                      /\ handlers[i].chat = p[1] /\ handlers[i].target = p[2]
                      /\ \/ MsgBanReturn(i, TRUE, Writes(faults))
                         \/ CmdBanReturn(i, TRUE, Writes(faults))
          /\ \A i \in 1..Len(handlers) :
                ( \/ MsgBanReturn(i, FALSE, Writes(faults))
                  \/ CmdBanReturn(i, FALSE, Writes(faults)) ) =>
                   LET h == handlers[i]
                   IN /\ data' = data /\ disk' = disk
                      /\ platform' = platform
                      /\ h.kind \in {"msg", "warn"} =>
                            get_warnings(data', h.chat, h.target) = h.n
                      /\ \/ Len(handlers') < Len(handlers)
                         \/ handlers'[i].pc = "reply"
      ]_vars

\* the gateway refused the ban of a /ban: u1 is neither in the ledger nor
\* banned on the platform
C28_Witness ==
    /\ Len(handlers) = 1
    /\ handlers[1].kind = "ban" /\ handlers[1].reply = "failed"
    /\ handlers[1].pc = "reply"
    /\ handlers[1].target = "u1"
    /\ ~is_user_banned(data, "g1", "u1")
    /\ <<"g1", "u1">> \notin platform

\* C29: a /kick asks for the unban in the step after its ban succeeded
\* and in no other; a ban that fails is answered as a failure with no
\* unban asked for; the kick is answered as done only when its unban
\* succeeded, and then the target is not banned on the platform.
C29_KickBanThenUnban ==
    /\ [](\A i \in 1..Len(handlers) :
            handlers[i].kind = "kick" =>
               LET p == <<handlers[i].chat, handlers[i].target>>
               IN /\ handlers[i].pc = "unban" => p \in platform
                  /\ handlers[i].reply = "kicked" => p \notin platform)
    /\ [][last' = "kick" =>
            \A i \in 1..Len(handlers) :
               LET h == handlers[i]
               IN /\ KickBanReturn(i, TRUE) => handlers'[i].pc = "unban"
                  /\ KickBanReturn(i, FALSE) =>
                        /\ handlers'[i].pc = "reply"
                        /\ handlers'[i].reply = "failed"
                        /\ platform' = platform
                  /\ KickUnbanReturn(i, FALSE) =>
                        handlers'[i].reply = "failed"
                  /\ (Len(handlers') = Len(handlers) /\ h.kind = "kick") =>
                        /\ (h.pc # "unban" /\ handlers'[i].pc = "unban") =>
                              /\ h.pc = "ban"
                              /\ <<h.chat, h.target>> \in platform'
                        /\ (h.reply # "kicked"
                              /\ handlers'[i].reply = "kicked") =>
                              h.pc = "unban"
         ]_vars

\* TGBot2.py has kicked u1, who had been banned by a /ban: the ledger has
\* the entry, the platform has no ban
C29_Witness ==
    /\ ver = 2
    /\ last = "kick"
    /\ Len(handlers) = 1
    /\ handlers[1].kind = "kick" /\ handlers[1].reply = "kicked"
    /\ handlers[1].target = "u1"
    /\ is_user_banned(data, "g1", "u1")
    /\ <<"g1", "u1">> \notin platform

C30_RecordFollowsObservation ==
    /\ [](\A u \in DOMAIN data.users :
            \A i, j \in 1..Len(data.users[u].chats) :
               data.users[u].chats[i] = data.users[u].chats[j] => i = j)
    /\ [][last' # "start" =>
            DOMAIN data.users \subseteq DOMAIN data'.users]_vars
    /\ [][last' = "msg" =>
            \A c \in Chats, u \in Members, p \in Renames, m \in Messages :
               MessageAccept(1, c, u, p, m.body, m.caption, {"ok"}) =>
                  /\ u \in DOMAIN data'.users
                  /\ data'.users[u].name = p
                  /\ InList(data'.users[u].chats, c)
         ]_vars

\* C31: the banned words stored for a conversation are the words added
\* with add_banned and not removed since (spam is the one word a command
\* of the model adds): no global word is written into chats_config.
C31_StoredWordsMinimal ==
    \A c \in DOMAIN data.chats_config :
        /\ data.chats_config[c].banned_words \subseteq {lower(TxtSpam)}
        /\ data.chats_config[c].banned_words \cap GLOBAL_BANNED_WORDS = {}

\* C32: while delete_links is off for a conversation a message in it is
\* registered and nothing more, whatever its text: no handler waits for a
\* delete, a notice or a ban, and the warnings, the ledger and the
\* platform's bans stay as they are; no message handler is in flight in
\* such a conversation.
C32_ToggleGatesModeration ==
    /\ [](\A i \in 1..Len(handlers) :
            handlers[i].kind = "msg" =>
               effective_config(ver, data, handlers[i].chat).delete_links)
    /\ [][last' = "msg" =>
            \A c \in Groups, u \in Members, p \in Profiles, m \in Messages :
               ( /\ ~effective_config(ver, data, c).delete_links
                 /\ MessageAccept(1, c, u, p, m.body, m.caption, {"ok"}) ) =>
                  /\ handlers' = handlers
                  /\ data'.warnings = data.warnings
                  /\ data'.banned = data.banned
                  /\ platform' = platform
         ]_vars

\* TGBot2.py, delete_links of g1 off and spam among its words: u1 has
\* written in g1 and has no warning
C32_Witness ==
    /\ ver = 2
    /\ last = "msg"
    /\ handlers = <<>>
    /\ ~effective_config(ver, data, "g1").delete_links
    /\ lower(TxtSpam) \in effective_config(ver, data, "g1").banned_words
    /\ "u1" \in DOMAIN data.users
    /\ InList(data.users["u1"].chats, "g1")
    /\ get_warnings(data, "g1", "u1") = 0
    /\ platform = {}

\* C33: a step of the handler of a violation, a /warn, a /ban or an /unban
\* of user u in conversation c leaves the count and the ledger entry of
\* every pair but (c, u) as they are, and the files, the channels and the
\* policies of all conversations; a step of a handler that is refused or
\* finds no violation changes no count and no ledger entry.
C33_PairIsolation ==
    [][last' \in {"msg", "warn", "ban", "unban"} =>
          LET hs == IF handlers # <<>> THEN handlers ELSE handlers'
              mine == IF hs = <<>> THEN {}
                      ELSE {<<hs[1].chat, hs[1].target>>}
          IN /\ \A p \in Pairs \ mine :
                   /\ get_warnings(data', p[1], p[2])
                         = get_warnings(data, p[1], p[2])
                   /\ is_user_banned(data', p[1], p[2])
                         = is_user_banned(data, p[1], p[2])
             /\ data'.files = data.files
             /\ data'.channels = data.channels
             /\ data'.chats_config = data.chats_config
      ]_vars

\* u1 was warned to the threshold and banned in g1: u2 is in the ledger
\* of g1 before u1 with its two warnings, u1 has its one warning in g2
C33_Witness ==
    /\ get_warnings(data, "g1", "u1") = 3
    /\ data.banned["g1"] = <<"u2", "u1">>
    /\ get_warnings(data, "g1", "u2") = 2
    /\ get_warnings(data, "g2", "u1") = 1
    /\ is_user_banned(data, "g2", "u1")
    /\ "k1" \in DOMAIN data.files
    /\ data.channels = <<"ch1">>
    /\ "g2" \in DOMAIN data.chats_config

=============================================================================
